---------------------------- MODULE Spec2Model ----------------------------
(***************************************************************************)
(* espebra/pastebin: the content-addressed storage layer (S3Storage), the  *)
(* HTTP handlers that call it and the retention sweeper (Cleaner), over    *)
(* one shared bucket.  Every backend call (PutObject, GetObject,           *)
(* DeleteObject, ListObjectsV2) is one atomic step of the calling          *)
(* goroutine; goroutines interleave between their backend calls.           *)
(***************************************************************************)
EXTENDS Integers, Sequences, FiniteSets

\* ------------------------------------------------------------------ bounds
MaxTime == 2        \* the clock runs 0..MaxTime
MaxTTL == 1         \* effective TTLs range over 1..MaxTTL clock units
MaxFailures == 1    \* backend calls that may fail in one run, cancellation aside
MaxKeys == 1        \* keys per ListObjectsV2 page (set by the backend)

\* --------------------------------------------------------------- constants
pastePrefix == "pastes/"
metaPrefix == "meta/"

\* Paste contents the clients submit.
Contents == {"abc", "Hello, World!"}

\* paste.ComputeChecksum: hex(SHA-256(content)), tabulated on the contents
\* of the model (and on the empty string).
ComputeChecksum(content) ==
    CASE content = "abc" ->
           "ba7816bf8f01cfea414140de5dae2223b00361a396177a9cb410ff61f20015ad"
      [] content = "Hello, World!" ->
           "dffd6021bb2bd5b0af676290809ec3a53191dd81c7f70a4b28688a362182986f"
      [] content = "" ->
           "e3b0c44298fc1c149afbf4c8996fb92427ae41e4649b934ca495991b7852b855"

\* The checksums of the model in the backend's listing order (lexicographic
\* by key).
SortedChecksums ==
    << "ba7816bf8f01cfea414140de5dae2223b00361a396177a9cb410ff61f20015ad",
       "dffd6021bb2bd5b0af676290809ec3a53191dd81c7f70a4b28688a362182986f" >>

Checksums == {SortedChecksums[i] : i \in 1..Len(SortedChecksums)}

PasteKey(checksum) == pastePrefix \o checksum
MetaKey(checksum) == metaPrefix \o checksum \o ".json"

PasteKeys == {PasteKey(c) : c \in Checksums}
MetaKeys == {MetaKey(c) : c \in Checksums}
Keys == PasteKeys \cup MetaKeys

\* ----------------------------------------------------------------- strings
\* A string the code inspects byte by byte is a sequence of its characters;
\* Text gives the string that names an object.
RECURSIVE Text(_)
Text(chars) == IF chars = <<>> THEN "" ELSE Head(chars) \o Text(Tail(chars))

\* The two checksums of the model, character by character.
AbcChars ==
    << "b", "a", "7", "8", "1", "6", "b", "f", "8", "f", "0", "1", "c", "f", "e", "a",
       "4", "1", "4", "1", "4", "0", "d", "e", "5", "d", "a", "e", "2", "2", "2", "3",
       "b", "0", "0", "3", "6", "1", "a", "3", "9", "6", "1", "7", "7", "a", "9", "c",
       "b", "4", "1", "0", "f", "f", "6", "1", "f", "2", "0", "0", "1", "5", "a", "d" >>
HelloChars ==
    << "d", "f", "f", "d", "6", "0", "2", "1", "b", "b", "2", "b", "d", "5", "b", "0",
       "a", "f", "6", "7", "6", "2", "9", "0", "8", "0", "9", "e", "c", "3", "a", "5",
       "3", "1", "9", "1", "d", "d", "8", "1", "c", "7", "f", "7", "0", "a", "4", "b",
       "2", "8", "6", "8", "8", "a", "3", "6", "2", "1", "8", "2", "9", "8", "6", "f" >>

LowerHex == {"0", "1", "2", "3", "4", "5", "6", "7", "8", "9",
             "a", "b", "c", "d", "e", "f"}
UpperHex == {"A", "B", "C", "D", "E", "F"}

\* strings.ToUpper on the characters of the model
ToUpper(ch) ==
    CASE ch = "a" -> "A" [] ch = "b" -> "B" [] ch = "c" -> "C"
      [] ch = "d" -> "D" [] ch = "e" -> "E" [] ch = "f" -> "F"
      [] OTHER -> ch
Upper(chars) == [i \in 1..Len(chars) |-> ToUpper(chars[i])]

checksumLength == 64

\* hex.DecodeString returns no error: the length is even and every
\* character is a hexadecimal digit, in either case.
DecodeStringOk(chars) ==
    /\ Len(chars) % 2 = 0
    /\ \A i \in 1..Len(chars) : chars[i] \in LowerHex \cup UpperHex

\* A validation that looks at the length alone.
isValidChecksum_LengthOnly(chars) == Len(chars) = checksumLength

\* isValidChecksum
isValidChecksum(chars) ==
    IF Len(chars) # checksumLength THEN FALSE ELSE DecodeStringOk(chars)

\* ------------------------------------------------------------------- data
\* time.Time: the wall clock reading and whether a monotonic reading is
\* attached (time.Now() attaches one, JSON decoding does not).
Now(t) == [wall |-> t, mono |-> TRUE]
Add(t, d) == [t EXCEPT !.wall = t.wall + d]
After(t, u) == t.wall > u.wall
TimeEqual(t, u) == t.wall = u.wall

NilMeta == [nil |-> TRUE]
NilPaste == [nil |-> TRUE]

\* paste.NewPaste
NewPaste(content) == [checksum |-> ComputeChecksum(content), content |-> content]

\* A NewMeta that leaves Size at its zero value.
NewMeta_NoSize(checksum, size, ttl, t) ==
    [checksum |-> checksum, created_at |-> Now(t),
     expires_at |-> Add(Now(t), ttl), size |-> 0]

\* paste.NewMeta, at clock reading t
NewMeta(checksum, size, ttl, t) ==
    [checksum |-> checksum, created_at |-> Now(t),
     expires_at |-> Add(Now(t), ttl), size |-> size]

\* Meta.IsExpired, at clock reading t
\* An expiry check that also holds at the expiry instant itself.
IsExpired_AtOrAfter(m, t) == ~After(m.expires_at, Now(t))

IsExpired(m, t) == After(Now(t), m.expires_at)

\* Bucket objects.
Absent == [kind |-> "absent"]
TextObject(content) == [kind |-> "text/plain", body |-> content]
Undecodable == [kind |-> "application/json", garbage |-> TRUE]

\* A marshaller that writes the creation time in both time fields.
MarshalMeta_CreatedAsExpiry(m) ==
    [kind |-> "application/json",
     doc |-> [checksum |-> m.checksum, created_at |-> m.created_at.wall,
              expires_at |-> m.created_at.wall, size |-> m.size]]

\* json.Marshal(meta): time.Time is written as its RFC 3339 wall clock
\* reading; the monotonic reading is not part of the document.
MarshalMeta(m) ==
    [kind |-> "application/json",
     doc |-> [checksum |-> m.checksum, created_at |-> m.created_at.wall,
              expires_at |-> m.expires_at.wall, size |-> m.size]]

Decodable(obj) == obj.kind = "application/json" /\ "doc" \in DOMAIN obj

\* json.Decoder.Decode into a paste.Meta
DecodeMeta(obj) ==
    [checksum |-> obj.doc.checksum,
     created_at |-> [wall |-> obj.doc.created_at, mono |-> FALSE],
     expires_at |-> [wall |-> obj.doc.expires_at, mono |-> FALSE],
     size |-> obj.doc.size]


\* ------------------------------------------------------------------ errors
NoErr == [msg |-> "nil", cause |-> "nil"]
Pending == [msg |-> "pending", cause |-> "nil"]

\* Wrapping that formats the cause into the message (%v) and drops it from
\* the error chain.
Err_Opaque(msg, cause) == [msg |-> msg, cause |-> "nil"]

\* fmt.Errorf("msg: %w", cause): the message, and the cause kept in the chain
Err(msg, cause) == [msg |-> msg, cause |-> cause]
ErrChecksumMismatch == "content checksum mismatch: possible data corruption"

\* ------------------------------------------------------------------- state
\* The goroutines: the HTTP requests in flight and the cleanup goroutine.
Requests == {"request"}
Cleaner == "cleaner"
Procs == Requests \cup {Cleaner}

VARIABLES
    bucket,       \* the bucket: key -> object (Absent when there is none)
    now,          \* the wall clock
    proc,         \* per goroutine: the handler and storage call in progress
    cleaner,      \* Cleaner.Start / cleanup / ForEachMeta loop state
    cancelled,    \* cleanupCtx is done
    tickPending,  \* a tick waits in ticker.C (capacity 1)
    faults,       \* the number of backend calls that have failed so far
    stored,       \* history: per checksum, the arguments of the last successful
                  \* Store, while nothing has touched the checksum's objects since
    sched,        \* "concurrent": goroutines interleave at their backend calls;
                  \* "sequential": operations do not overlap; "open": they do
                  \* not overlap and the bucket is also written out-of-band
    budget,       \* how many backend calls may fail in this run
    signalled,    \* run has received SIGINT or SIGTERM
    removed,      \* history: the checksums whose paste the delete handler has
                  \* removed, while nothing has stored the checksum since
    cfg,          \* config.Config of the run: DefaultTTL, MaxPasteSize
    bucketExists  \* the backend has the bucket the service is configured with

vars == <<bucket, now, proc, cleaner, cancelled, tickPending, faults, stored, sched, budget, signalled, removed, cfg, bucketExists>>

NilRet == [nil |-> TRUE]
NoCheck == [nil |-> TRUE]
NoStore == [nil |-> TRUE]
NoRequest == [nil |-> TRUE]

\* The context of a request's storage calls (r.Context() under a timeout of
\* 30 s): whether it is done and, when it is, how many backend calls of the
\* storage operation had returned by then.
LiveCtx == [done |-> FALSE, calls |-> 0]

\* The configuration a run has when the environment sets nothing: a
\* default TTL of one year (in hours) and a maximum paste size of 1 MiB.
defaultTTL == 8760
defaultMaxPasteSize == 1048576
DefaultConfig == [DefaultTTL |-> defaultTTL, MaxPasteSize |-> defaultMaxPasteSize]

IdleFrame ==
    [handler |-> "idle", pc |-> "idle", checksum |-> "", content |-> "",
     meta |-> NilMeta, fn |-> "none", calls |-> <<>>, err |-> NoErr,
     ret |-> NilRet, check |-> NoCheck, status |-> 0, body |-> "",
     req |-> NoRequest, ctx |-> LiveCtx]

EmptyBucket == [k \in Keys |-> Absent]

IdleCleaner ==
    [state |-> "created", pc |-> "none", page |-> <<>>, idx |-> 0, token |-> 0,
     more |-> FALSE, deleted |-> 0, ferr |-> NoErr,
     listed |-> <<>>, skipped |-> <<>>, visits |-> <<>>,
     start |-> EmptyBucket, t0 |-> 0, first |-> FALSE, cb |-> "cleanup"]

InitCommon ==
    /\ bucket = EmptyBucket
    /\ now = 0
    /\ proc = [p \in Procs |-> IF p = Cleaner
                                 THEN [IdleFrame EXCEPT !.handler = "cleanup"]
                                 ELSE IdleFrame]
    /\ cleaner = IdleCleaner
    /\ cancelled = FALSE
    /\ tickPending = FALSE
    /\ faults = 0
    /\ stored = [c \in Checksums |-> NoStore]
    /\ signalled = FALSE
    /\ removed = {}
    /\ cfg = DefaultConfig
    /\ bucketExists = TRUE

Init == InitCommon /\ sched = "concurrent" /\ budget = 0
InitSeq == InitCommon /\ sched = "sequential" /\ budget = MaxFailures
InitOpen == InitCommon /\ sched = "open" /\ budget = 0

\* ------------------------------------------------------------- scheduling
Quiet(q) == IF q = Cleaner THEN cleaner.state # "sweeping"
                           ELSE proc[q].pc = "idle"
AllQuiet == \A q \in Procs : Quiet(q)
MayStep(p) == sched = "concurrent" \/ \A q \in Procs \ {p} : Quiet(q)

\* Backend calls that are issued without the caller's context.
Outcomes_IgnoreContext(p) == IF faults < budget THEN BOOLEAN ELSE {TRUE}

\* Backend calls of the requests that do not look at the request's context.
Done_CleanerOnly(p) == p = Cleaner /\ cancelled

\* The context that goroutine p hands to its backend calls is done:
\* cleanupCtx for the cleaner, the request's context for a handler.
Done(p) == IF p = Cleaner THEN cancelled ELSE proc[p].ctx.done

\* The outcomes of a backend call issued by goroutine p: served, or failed
\* in transport.  With its context done the call fails.
Outcomes(p) == IF Done(p) THEN {FALSE}
               ELSE IF faults < budget THEN BOOLEAN ELSE {TRUE}
\* A GetObject may also fail while its body is read.
GetOutcomes(p) == IF Done(p) THEN {"fail"}
                  ELSE IF faults < budget THEN {"ok", "fail", "readfail"}
                  ELSE {"ok"}

Min(a, b) == IF a < b THEN a ELSE b
\* The count of failed calls after one more call, served (ok) or not.
Note(ok) == IF ok THEN faults ELSE Min(faults + 1, budget + 1)

\* History is kept in the sequential runs of the program alone.
Record(new, old) == IF sched = "sequential" THEN new ELSE old

Call(fn, op, key, ok) == [fn |-> fn, op |-> op, key |-> key, ok |-> ok]

\* ------------------------------------------------- handlers: continuations
\* handleCreate after Store returns
StoreReturn(f, err) ==
    [f EXCEPT !.pc = "done", !.err = err,
              !.status = IF err = NoErr THEN 303 ELSE 500]

BeginDelete(f, checksum) ==
    [f EXCEPT !.pc = "delete_paste", !.fn = "Delete", !.checksum = checksum,
              !.calls = <<>>, !.err = Pending]

\* A delete handler that deletes without looking at the error of Get.
GetReturn_DeleteUnchecked(f, err, t) ==
    IF f.handler = "delete"
    THEN BeginDelete([f EXCEPT !.err = NoErr], f.checksum)
    ELSE IF err # NoErr
    THEN [f EXCEPT !.pc = "done", !.err = err, !.ret = NilRet, !.status = 404]
    ELSE LET expired == IsExpired(f.ret.meta, t)
             h == [f EXCEPT !.err = NoErr, !.check = [expired |-> expired, at |-> t]]
         IN IF expired THEN BeginDelete(h, f.checksum)
            ELSE [h EXCEPT !.pc = "done", !.status = 200,
                           !.body = f.ret.paste.content]

\* handleView, handleRaw, handleDelete after Get returns at clock reading t
GetReturn(f, err, t) ==
    IF err # NoErr
    THEN [f EXCEPT !.pc = "done", !.err = err, !.ret = NilRet, !.status = 404]
    ELSE LET g == [f EXCEPT !.err = NoErr] IN
         IF f.handler = "delete" THEN BeginDelete(g, f.checksum)
         ELSE LET expired == IsExpired(f.ret.meta, t)
                  h == [g EXCEPT !.check = [expired |-> expired, at |-> t]]
              IN IF expired THEN BeginDelete(h, f.checksum)
                 ELSE [h EXCEPT !.pc = "done", !.status = 200,
                                !.body = f.ret.paste.content]

\* Handlers that answer a failed Delete with 500 whatever the handler.
DeleteReturn_ErrorStatus(f, err) ==
    [f EXCEPT !.pc = "done", !.err = err,
              !.status = IF err # NoErr THEN 500
                           ELSE IF f.handler = "delete" THEN 303 ELSE 410]

\* handleView, handleRaw, handleDelete after Delete returns
DeleteReturn(f, err) ==
    [f EXCEPT !.pc = "done", !.err = err,
              !.status = IF f.handler = "delete"
                           THEN (IF err = NoErr THEN 303 ELSE 500)
                           ELSE 410]


\* ------------------------------------------------------------ requests
\* CSRF tokens as the cookie and the form carry them ("" when there is none).
Tokens == {"t1", "t2"}

\* A check of the form token alone.
Validate_FormTokenOnly(cookieToken, formToken) == formToken # ""

\* csrf.Validate: both tokens are there and they are equal.
Validate(cookieToken, formToken) ==
    IF cookieToken = "" \/ formToken = "" THEN FALSE
    ELSE cookieToken = formToken

\* time.ParseDuration on the ttl values of the model, in hours (the clock
\* unit); ok is FALSE when it returns an error.
ParseDuration(str) ==
    CASE str = "1h" -> [ok |-> TRUE, d |-> 1]
      [] str = "2h" -> [ok |-> TRUE, d |-> 2]
      [] str = "48h" -> [ok |-> TRUE, d |-> 48]
      [] str = "0s" -> [ok |-> TRUE, d |-> 0]
      [] str = "-1h" -> [ok |-> TRUE, d |-> -1]
      [] OTHER -> [ok |-> FALSE, d |-> 0]

TTLInputs == {"", "not-a-duration", "-1h", "0s", "1h", "2h", "48h"}

fallbackTTL == 24

\* A TTL taken from the form whatever its sign.
EffectiveTTL_AnyParsed(ttlStr, default) ==
    IF ttlStr # "" /\ ParseDuration(ttlStr).ok THEN ParseDuration(ttlStr).d
    ELSE IF default <= 0 THEN fallbackTTL ELSE default

\* handleCreate: the TTL of the paste, from the form value and cfg.DefaultTTL
EffectiveTTL(ttlStr, default) ==
    LET parsed == ParseDuration(ttlStr)
        ttl == IF ttlStr # "" /\ parsed.ok /\ parsed.d > 0 THEN parsed.d ELSE default
    IN IF ttl <= 0
       THEN (IF default <= 0 THEN fallbackTTL ELSE default)
       ELSE ttl

\* The POST of the create form: whether ParseForm accepts the body, the CSRF
\* cookie, and the form values csrf_token, content and ttl.
CreateRequest(parsed, cookie, form, content, ttl) ==
    [parsed |-> parsed, cookie |-> cookie, form |-> form,
     content |-> content, ttl |-> ttl]

\* A POST whose body ParseForm rejects: no form value can be read.
UnparsedCreate(cookie) == CreateRequest(FALSE, cookie, "", "", "")

\* Create requests of a well-behaved client: tokens that match, a content
\* within the size limit, a TTL of 1..MaxTTL hours.
WellFormedCreates ==
    {CreateRequest(TRUE, "t1", "t1", content, ttl) :
        content \in Contents,
        ttl \in {str \in TTLInputs : /\ ParseDuration(str).ok
                                     /\ ParseDuration(str).d \in 1..MaxTTL}}

\* Create requests of any client.
AnyCreates ==
    {UnparsedCreate(cookie) : cookie \in Tokens \cup {""}}
    \cup {CreateRequest(TRUE, cookie, form, content, ttl) :
            cookie \in Tokens \cup {""}, form \in Tokens \cup {""},
            content \in Contents \cup {""}, ttl \in TTLInputs}

\* A view, raw or delete request: the path value, and for a delete the
\* parsed form with the CSRF tokens; entropy is FALSE when the token that
\* the view page carries cannot be generated.
LookupRequest(handler, path, parsed, cookie, form, entropy) ==
    [handler |-> handler, path |-> path, parsed |-> parsed,
     cookie |-> cookie, form |-> form, entropy |-> entropy]

ChecksumChars == {AbcChars, HelloChars}

WellFormedLookups ==
    {LookupRequest(h, path, TRUE, "", "", TRUE) : h \in {"view", "raw"}, path \in ChecksumChars}
    \cup {LookupRequest("delete", path, TRUE, "t1", "t1", TRUE) : path \in ChecksumChars}

\* Path values of any client: the checksums, one in upper case, and the
\* values the tests reject.
AnyPaths ==
    ChecksumChars
    \cup {Upper(HelloChars),
          <<>>,
          <<"a", "b", "c", "1", "2", "3">>,
          SubSeq(HelloChars, 1, checksumLength - 1),
          HelloChars \o <<"0">>,
          HelloChars \o <<"0", "0">>,
          [HelloChars EXCEPT ![1] = "z"],
          [HelloChars EXCEPT ![checksumLength] = " "]}

AnyLookups ==
    {LookupRequest("view", path, TRUE, "", "", entropy) :
        path \in AnyPaths, entropy \in BOOLEAN}
    \cup {LookupRequest("raw", path, TRUE, "", "", TRUE) : path \in AnyPaths}
    \cup {LookupRequest("delete", path, FALSE, cookie, "", TRUE) :
            path \in AnyPaths, cookie \in Tokens \cup {""}}
    \cup {LookupRequest("delete", path, TRUE, cookie, form, TRUE) :
            path \in AnyPaths, cookie \in Tokens \cup {""}, form \in Tokens \cup {""}}

\* ------------------------------------------------------- handlers: entry
\* http.Error: the handler answers with the status and returns.
Reject(f, status) == [f EXCEPT !.pc = "done", !.status = status]

\* A create handler without the limit on the size of the content.
createEntry_NoSizeLimit(q, config, t) ==
    LET f == [IdleFrame EXCEPT !.handler = "create", !.req = q] IN
    IF ~q.parsed THEN Reject(f, 400)
    ELSE IF ~Validate(q.cookie, q.form) THEN Reject(f, 403)
    ELSE IF q.content = "" THEN Reject(f, 400)
    ELSE LET p == NewPaste(q.content)
             m == NewMeta(p.checksum, Len(q.content),
                          EffectiveTTL(q.ttl, config.DefaultTTL), t)
         IN [f EXCEPT !.pc = "put_paste", !.fn = "Store", !.err = Pending,
                      !.checksum = p.checksum, !.content = p.content, !.meta = m]

\* handleCreate up to the call of Store, at clock reading t: the form is
\* parsed, the CSRF tokens and the content are checked, and the paste and
\* its metadata are built from the content and the effective TTL.
createEntry(q, config, t) ==
    LET f == [IdleFrame EXCEPT !.handler = "create", !.req = q] IN
    IF ~q.parsed THEN Reject(f, 400)
    ELSE IF ~Validate(q.cookie, q.form) THEN Reject(f, 403)
    ELSE IF q.content = "" THEN Reject(f, 400)
    ELSE IF Len(q.content) > config.MaxPasteSize THEN Reject(f, 400)
    ELSE LET p == NewPaste(q.content)
             m == NewMeta(p.checksum, Len(q.content),
                          EffectiveTTL(q.ttl, config.DefaultTTL), t)
         IN [f EXCEPT !.pc = "put_paste", !.fn = "Store", !.err = Pending,
                      !.checksum = p.checksum, !.content = p.content, !.meta = m]

\* Handlers that hand any path value of the right length to the storage.
lookupEntry_NoHexCheck(q) ==
    LET f == [IdleFrame EXCEPT !.handler = q.handler, !.req = q] IN
    IF q.handler = "delete" /\ ~q.parsed THEN Reject(f, 400)
    ELSE IF q.handler = "delete" /\ ~Validate(q.cookie, q.form) THEN Reject(f, 403)
    ELSE IF q.path = <<>> \/ Len(q.path) # checksumLength THEN Reject(f, 404)
    ELSE IF q.handler = "view" /\ ~q.entropy THEN Reject(f, 500)
    ELSE [f EXCEPT !.pc = "get_paste", !.fn = "Get", !.err = Pending,
                   !.checksum = Text(q.path)]

\* handleView, handleRaw and handleDelete up to the call of Get: handleDelete
\* parses the form and checks the CSRF tokens first; all three check the
\* path value; handleView generates the token of its page.
lookupEntry(q) ==
    LET f == [IdleFrame EXCEPT !.handler = q.handler, !.req = q] IN
    IF q.handler = "delete" /\ ~q.parsed THEN Reject(f, 400)
    ELSE IF q.handler = "delete" /\ ~Validate(q.cookie, q.form) THEN Reject(f, 403)
    ELSE IF q.path = <<>> \/ ~isValidChecksum(q.path) THEN Reject(f, 404)
    ELSE IF q.handler = "view" /\ ~q.entropy THEN Reject(f, 500)
    ELSE [f EXCEPT !.pc = "get_paste", !.fn = "Get", !.err = Pending,
                   !.checksum = Text(q.path)]

\* A create request out of the set creates is served up to its Store call.
serveCreate(r, creates) ==
    /\ proc[r].pc = "idle"
    /\ MayStep(r)
    /\ \E q \in creates : proc' = [proc EXCEPT ![r] = createEntry(q, cfg, now)]
    /\ UNCHANGED <<bucket, now, cleaner, cancelled, tickPending, faults, stored, sched, budget, signalled, removed, cfg, bucketExists>>

\* A view, raw or delete request out of the set lookups is served up to its
\* Get call.
serveLookup(r, lookups) ==
    /\ proc[r].pc = "idle"
    /\ MayStep(r)
    /\ \E q \in lookups : proc' = [proc EXCEPT ![r] = lookupEntry(q)]
    /\ UNCHANGED <<bucket, now, cleaner, cancelled, tickPending, faults, stored, sched, budget, signalled, removed, cfg, bucketExists>>

\* The handlers serving the requests of well-behaved clients.
handleCreate(r) == serveCreate(r, WellFormedCreates)
handleLookup(r) == serveLookup(r, WellFormedLookups)

\* The handlers serving the requests of any client.
anyCreate(r) == serveCreate(r, AnyCreates)
anyLookup(r) == serveLookup(r, AnyLookups)

\* The response is written and the handler returns.
Respond(r) ==
    /\ proc[r].pc = "done"
    /\ proc' = [proc EXCEPT ![r] = IdleFrame]
    /\ UNCHANGED <<bucket, now, cleaner, cancelled, tickPending, faults, stored, sched, budget, signalled, removed, cfg, bucketExists>>

\* ------------------------------------------------------- S3Storage.Store
\* A Store that goes on to the metadata write whatever the content write
\* returned.
AfterPutPaste_IgnoreError(g, ok) == [g EXCEPT !.pc = "put_meta"]

\* Store after its content write: the metadata write follows a content
\* write that succeeded.
AfterPutPaste(g, ok) ==
    IF ok THEN [g EXCEPT !.pc = "put_meta"]
          ELSE StoreReturn(g, Err("failed to store paste", "transport"))

\* A Store that drops the error of its metadata write.
PutMetaResult_Swallow(ok) == NoErr

\* What Store returns after its metadata write.
PutMetaResult(ok) ==
    IF ok THEN NoErr ELSE Err("failed to store metadata", "transport")

\* The content write.
StorePutPaste(p) ==
    /\ proc[p].pc = "put_paste"
    /\ MayStep(p)
    /\ \E ok \in Outcomes(p) :
         LET f == proc[p]
             pasteKey == PasteKey(f.checksum)
             call == Call("Store", "PutObject", pasteKey, ok)
             g == [f EXCEPT !.calls = Append(@, call)]
         IN /\ bucket' = IF ok THEN [bucket EXCEPT ![pasteKey] = TextObject(f.content)]
                               ELSE bucket
            /\ proc' = [proc EXCEPT ![p] = AfterPutPaste(g, ok)]
            /\ stored' = IF ok THEN Record([stored EXCEPT ![f.checksum] = NoStore], stored)
                               ELSE stored
            /\ removed' = IF ok THEN Record(removed \ {f.checksum}, removed)
                                ELSE removed
            /\ faults' = Note(ok)
    /\ UNCHANGED <<now, cleaner, cancelled, tickPending, sched, budget, signalled, cfg, bucketExists>>

\* The metadata write.
StorePutMeta(p) ==
    /\ proc[p].pc = "put_meta"
    /\ MayStep(p)
    /\ \E ok \in Outcomes(p) :
         LET f == proc[p]
             metaKey == MetaKey(f.checksum)
             call == Call("Store", "PutObject", metaKey, ok)
             g == [f EXCEPT !.calls = Append(@, call)]
         IN /\ bucket' = IF ok THEN [bucket EXCEPT ![metaKey] = MarshalMeta(f.meta)]
                               ELSE bucket
            /\ proc' = [proc EXCEPT ![p] = StoreReturn(g, PutMetaResult(ok))]
            /\ stored' = IF ok THEN Record([stored EXCEPT ![f.checksum] =
                                                [checksum |-> f.checksum,
                                                 content |-> f.content,
                                                 meta |-> f.meta]],
                                            stored)
                               ELSE stored
            /\ removed' = IF ok THEN Record(removed \ {f.checksum}, removed)
                                ELSE removed
            /\ faults' = Note(ok)
    /\ UNCHANGED <<now, cleaner, cancelled, tickPending, sched, budget, signalled, cfg, bucketExists>>

Store(p) == StorePutPaste(p) \/ StorePutMeta(p)

\* The context of request r is done (the client has gone away or the 30 s
\* have passed) between two backend calls of its Store, or before the first.
requestCancel(r) ==
    /\ proc[r].fn = "Store"
    /\ proc[r].pc \in {"put_paste", "put_meta"}
    /\ ~proc[r].ctx.done
    /\ proc' = [proc EXCEPT ![r].ctx = [done |-> TRUE, calls |-> Len(proc[r].calls)]]
    /\ UNCHANGED <<bucket, now, cleaner, cancelled, tickPending, faults, stored, sched, budget, signalled, removed, cfg, bucketExists>>

\* The states the bucket can be left in by a PutObject of obj under key that
\* is aborted in flight: the backend has applied the write or it has not.
AbortedPut(b, key, obj) == {b, [b EXCEPT ![key] = obj]}

\* The context of p is done while a PutObject of its Store is in flight: the
\* call is aborted and returns the context's error.
StoreAborted(p) ==
    /\ proc[p].fn = "Store"
    /\ proc[p].pc \in {"put_paste", "put_meta"}
    /\ ~proc[p].ctx.done
    /\ MayStep(p)
    /\ LET f == proc[p]
           content == f.pc = "put_paste"
           key == IF content THEN PasteKey(f.checksum) ELSE MetaKey(f.checksum)
           obj == IF content THEN TextObject(f.content) ELSE MarshalMeta(f.meta)
           call == Call("Store", "PutObject", key, FALSE)
           g == [f EXCEPT !.calls = Append(@, call),
                          !.ctx = [done |-> TRUE, calls |-> Len(f.calls) + 1]]
       IN /\ bucket' \in AbortedPut(bucket, key, obj)
          /\ proc' = [proc EXCEPT ![p] = IF content THEN AfterPutPaste(g, FALSE)
                                         ELSE StoreReturn(g, PutMetaResult(FALSE))]
          /\ stored' = Record([stored EXCEPT ![f.checksum] = NoStore], stored)
          /\ removed' = Record(removed \ {f.checksum}, removed)
          /\ faults' = Note(FALSE)
    /\ UNCHANGED <<now, cleaner, cancelled, tickPending, sched, budget, signalled, cfg, bucketExists>>

\* --------------------------------------------------------- S3Storage.Get
\* A Get that does not verify what it fetched.
VerifyChecksum_Skipped(content, checksum) == TRUE

\* The checksum of the fetched bytes is the requested one.
VerifyChecksum(content, checksum) == ComputeChecksum(content) = checksum

\* The content fetch and the verification of its checksum.
GetPaste(p) ==
    /\ proc[p].pc = "get_paste"
    /\ MayStep(p)
    /\ \E out \in GetOutcomes(p) :
         LET f == proc[p]
             pasteKey == PasteKey(f.checksum)
             obj == IF pasteKey \in Keys THEN bucket[pasteKey] ELSE Absent
             served == out # "fail" /\ obj # Absent
             call == Call("Get", "GetObject", pasteKey, served)
             g == [f EXCEPT !.calls = Append(@, call)]
         IN /\ proc' = [proc EXCEPT ![p] =
                   IF out = "fail"
                   THEN GetReturn(g, Err("failed to get paste", "transport"), now)
                   ELSE IF obj = Absent
                   THEN GetReturn(g, Err("failed to get paste", "NoSuchKey"), now)
                   ELSE IF out = "readfail"
                   THEN GetReturn(g, Err("failed to read paste content", "transport"), now)
                   ELSE LET h == [g EXCEPT !.content = obj.body] IN
                        IF ~VerifyChecksum(h.content, f.checksum)
                        THEN GetReturn(h, Err(ErrChecksumMismatch, "mismatch"), now)
                        ELSE [h EXCEPT !.pc = "get_meta"]]
            /\ faults' = Note(~(out = "fail" \/ (out = "readfail" /\ obj # Absent)))
    /\ UNCHANGED <<bucket, now, cleaner, cancelled, tickPending, stored, sched, budget, signalled, removed, cfg, bucketExists>>

\* A Get that returns the paste it has fetched when there is no metadata
\* object.
MissingMeta_PasteAlone(g, t) ==
    [g EXCEPT !.pc = "done", !.err = NoErr, !.status = 200, !.body = g.content,
              !.ret = [paste |-> [checksum |-> g.checksum, content |-> g.content],
                       meta |-> NilMeta]]

\* Get when the fetch of the metadata object finds no object: an error, and
\* neither paste nor metadata.
MissingMeta(g, t) == GetReturn(g, Err("failed to get metadata", "NoSuchKey"), t)

\* A Get that returns the paste it has fetched when the metadata object
\* does not decode.
UndecodableMeta_PasteServed(g, t) ==
    [g EXCEPT !.pc = "done", !.err = NoErr, !.status = 200, !.body = g.content,
              !.ret = [paste |-> [checksum |-> g.checksum, content |-> g.content],
                       meta |-> NilMeta]]

\* Get when the metadata object does not decode: an error, and neither
\* paste nor metadata.
UndecodableMeta(g, t) == GetReturn(g, Err("failed to decode metadata", "syntax"), t)

\* The metadata fetch and its decoding.
GetMeta(p) ==
    /\ proc[p].pc = "get_meta"
    /\ MayStep(p)
    /\ \E out \in GetOutcomes(p) :
         LET f == proc[p]
             metaKey == MetaKey(f.checksum)
             obj == bucket[metaKey]
             served == out # "fail" /\ obj # Absent
             call == Call("Get", "GetObject", metaKey, served)
             g == [f EXCEPT !.calls = Append(@, call)]
         IN /\ proc' = [proc EXCEPT ![p] =
                   IF out = "fail"
                   THEN GetReturn(g, Err("failed to get metadata", "transport"), now)
                   ELSE IF obj = Absent
                   THEN MissingMeta(g, now)
                   ELSE IF out = "readfail"
                   THEN GetReturn(g, Err("failed to decode metadata", "transport"), now)
                   ELSE IF ~Decodable(obj)
                   THEN UndecodableMeta(g, now)
                   ELSE GetReturn(
                          [g EXCEPT !.ret = [paste |-> [checksum |-> f.checksum,
                                                        content |-> f.content],
                                             meta |-> DecodeMeta(obj)]],
                          NoErr, now)]
            /\ faults' = Note(~(out = "fail" \/ (out = "readfail" /\ obj # Absent)))
    /\ UNCHANGED <<bucket, now, cleaner, cancelled, tickPending, stored, sched, budget, signalled, removed, cfg, bucketExists>>

Get(p) == GetPaste(p) \/ GetMeta(p)


\* ------------------------------------------------- Cleaner.cleanup, part 1
\* A callback that hands the error of its Delete call to ForEachMeta.
cleanupCallback_Propagate(delErr) == delErr

\* What the callback of cleanup returns to ForEachMeta, given the error of
\* its Delete call (NoErr too when the entry was not expired).
cleanupCallback(delErr) == NoErr

\* A ForEachMeta that stops at the end of its first page.
NextObject_OnePage(cl) ==
    IF cl.idx < Len(cl.page) THEN [cl EXCEPT !.idx = @ + 1, !.pc = "fetch"]
    ELSE [cl EXCEPT !.pc = "complete", !.ferr = NoErr]

\* ForEachMeta moves on after the listed key page[idx].
NextObject(cl) ==
    IF cl.idx < Len(cl.page) THEN [cl EXCEPT !.idx = @ + 1, !.pc = "fetch"]
    ELSE IF cl.more THEN [cl EXCEPT !.pc = "list"]
    ELSE [cl EXCEPT !.pc = "complete", !.ferr = NoErr]

\* A ForEachMeta that gives up at the first object it cannot read.
AfterFetchError_Abort(cl, key) ==
    [cl EXCEPT !.pc = "complete", !.ferr = Err("failed to fetch metadata", "transport")]

\* ForEachMeta after fetchMeta returned an error for the listed key.
AfterFetchError(cl, key) == NextObject([cl EXCEPT !.skipped = Append(@, key)])

\* The callbacks of the ForEachMeta tests: one that records the entry and
\* returns nil, one that returns an error on every entry.
visitCallback(cb) ==
    IF cb = "stop" THEN Err("stop iteration", "callback") ELSE NoErr

\* A ForEachMeta that goes on whatever the callback returned.
AfterCallback_Continue(cl, cbErr) == NextObject(cl)

\* ForEachMeta after the callback returned cbErr.
AfterCallback(cl, cbErr) ==
    IF cbErr # NoErr THEN [cl EXCEPT !.pc = "complete", !.ferr = cbErr]
    ELSE NextObject(cl)

\* A callback that counts every Delete it calls.
AfterSweepDelete_CountCalls(cl, err) ==
    AfterCallback(
        [cl EXCEPT !.deleted = @ + 1,
                   !.visits[Len(cl.visits)].del = err.msg],
        cleanupCallback(err))

\* The callback of cleanup after its Delete call returned err.
AfterSweepDelete(cl, err) ==
    AfterCallback(
        [cl EXCEPT !.deleted = IF err = NoErr THEN @ + 1 ELSE @,
                   !.visits[Len(cl.visits)].del = err.msg],
        cleanupCallback(err))

\* ------------------------------------------------------ S3Storage.Delete
\* A content delete that removes nothing.
DeleteContent_Noop(b, checksum) == b

\* The bucket after the content object of checksum is deleted.
DeleteContent(b, checksum) == [b EXCEPT ![PasteKey(checksum)] = Absent]

\* A metadata delete that removes nothing.
DeleteMetadata_Noop(b, checksum) == b

\* The bucket after the metadata object of checksum is deleted.
DeleteMetadata(b, checksum) == [b EXCEPT ![MetaKey(checksum)] = Absent]

\* A Delete that goes on to the metadata delete whatever the content delete
\* returned.
AfterDeletePaste_IgnoreError(g, ok) == [g EXCEPT !.pc = "delete_meta"]

\* Delete after its content delete: the metadata delete follows a content
\* delete that succeeded; otherwise Delete returns the error.
AfterDeletePaste(g, ok) ==
    IF ok THEN [g EXCEPT !.pc = "delete_meta"]
    ELSE [g EXCEPT !.pc = "return", !.err = Err("failed to delete paste", "transport")]

\* A Delete that drops the error of its metadata delete.
DeleteMetaResult_Swallow(ok) == NoErr

\* What Delete returns after its metadata delete.
DeleteMetaResult(ok) ==
    IF ok THEN NoErr ELSE Err("failed to delete metadata", "transport")

\* Delete has returned err in goroutine p, whose frame is g.
DeleteDone(p, g, err) ==
    IF p = Cleaner
    THEN /\ proc' = [proc EXCEPT ![p] = [g EXCEPT !.pc = "idle", !.err = err]]
         /\ cleaner' = AfterSweepDelete(cleaner, err)
    ELSE /\ proc' = [proc EXCEPT ![p] = DeleteReturn(g, err)]
         /\ UNCHANGED cleaner

\* A Delete that removes the metadata object all the same when its content
\* delete failed, and returns the error of the content delete.
DeletePaste_MetaAnyway(p) ==
    /\ proc[p].pc = "delete_paste"
    /\ MayStep(p)
    /\ \E ok \in Outcomes(p) :
         LET f == proc[p]
             pasteKey == PasteKey(f.checksum)
             call == Call("Delete", "DeleteObject", pasteKey, ok)
             g == [f EXCEPT !.calls = Append(@, call)]
             h == AfterDeletePaste(g, ok)
         IN /\ bucket' = IF ok THEN DeleteContent(bucket, f.checksum)
                               ELSE DeleteMetadata(bucket, f.checksum)
            /\ IF h.pc = "delete_meta"
               THEN /\ proc' = [proc EXCEPT ![p] = h]
                    /\ UNCHANGED cleaner
               ELSE DeleteDone(p, g, h.err)
            /\ stored' = Record([stored EXCEPT ![f.checksum] = NoStore], stored)
            /\ faults' = Note(ok)
    /\ UNCHANGED <<now, cancelled, tickPending, sched, budget, signalled, removed, cfg, bucketExists>>

\* The content delete.
DeletePaste(p) ==
    /\ proc[p].pc = "delete_paste"
    /\ MayStep(p)
    /\ \E ok \in Outcomes(p) :
         LET f == proc[p]
             pasteKey == PasteKey(f.checksum)
             call == Call("Delete", "DeleteObject", pasteKey, ok)
             g == [f EXCEPT !.calls = Append(@, call)]
             h == AfterDeletePaste(g, ok)
         IN /\ bucket' = IF ok THEN DeleteContent(bucket, f.checksum) ELSE bucket
            /\ IF h.pc = "delete_meta"
               THEN /\ proc' = [proc EXCEPT ![p] = h]
                    /\ UNCHANGED cleaner
               ELSE DeleteDone(p, g, h.err)
            /\ stored' = IF ok THEN Record([stored EXCEPT ![f.checksum] = NoStore], stored)
                               ELSE stored
            /\ faults' = Note(ok)
    /\ UNCHANGED <<now, cancelled, tickPending, sched, budget, signalled, removed, cfg, bucketExists>>

\* The metadata delete.
DeleteMeta(p) ==
    /\ proc[p].pc = "delete_meta"
    /\ MayStep(p)
    /\ \E ok \in Outcomes(p) :
         LET f == proc[p]
             metaKey == MetaKey(f.checksum)
             call == Call("Delete", "DeleteObject", metaKey, ok)
             g == [f EXCEPT !.calls = Append(@, call)]
         IN /\ bucket' = IF ok THEN DeleteMetadata(bucket, f.checksum) ELSE bucket
            /\ DeleteDone(p, g, DeleteMetaResult(ok))
            /\ stored' = IF ok THEN Record([stored EXCEPT ![f.checksum] = NoStore], stored)
                               ELSE stored
            /\ removed' = IF ok /\ f.handler = "delete"
                                THEN Record(removed \cup {f.checksum}, removed)
                                ELSE removed
            /\ faults' = Note(ok)
    /\ UNCHANGED <<now, cancelled, tickPending, sched, budget, signalled, cfg, bucketExists>>

Delete(p) == DeletePaste(p) \/ DeleteMeta(p)

\* ------------------------------------------------- S3Storage.ForEachMeta
\* A listing that resumes one key too far after the continuation token.
ListedAfter_SkipOne(token) ==
    SelectSeq([i \in 1..Len(SortedChecksums) |-> i],
              LAMBDA i : i > token + (IF token > 0 THEN 1 ELSE 0)
                         /\ bucket[MetaKey(SortedChecksums[i])] # Absent)

\* The ranks (in listing order) of the metadata objects in the bucket that
\* come after the continuation token.
ListedAfter(token) ==
    SelectSeq([i \in 1..Len(SortedChecksums) |-> i],
              LAMBDA i : i > token /\ bucket[MetaKey(SortedChecksums[i])] # Absent)

\* paginator.NextPage: one ListObjectsV2 call.
ListPage ==
    /\ cleaner.state = "sweeping" /\ cleaner.pc = "list"
    /\ MayStep(Cleaner)
    /\ \E ok \in Outcomes(Cleaner) :
         LET call == Call("ForEachMeta", "ListObjectsV2", metaPrefix, ok)
             rest == ListedAfter(cleaner.token)
             n == Min(MaxKeys, Len(rest))
             page == [i \in 1..n |-> MetaKey(SortedChecksums[rest[i]])]
             cl == [cleaner EXCEPT !.page = page, !.idx = 1,
                                   !.token = IF n = 0 THEN @ ELSE rest[n],
                                   !.more = Len(rest) > n,
                                   !.listed = @ \o page]
         IN /\ cleaner' = IF ~ok
                            THEN [cleaner EXCEPT !.pc = "complete",
                                    !.ferr = Err("failed to list metadata", "transport")]
                          ELSE IF n = 0 THEN NextObject([cl EXCEPT !.idx = 0])
                          ELSE [cl EXCEPT !.pc = "fetch"]
            /\ faults' = Note(ok)
    /\ UNCHANGED <<bucket, now, proc, cancelled, tickPending, stored, sched, budget, signalled, removed, cfg, bucketExists>>

\* fetchMeta for the listed key page[idx] and, when it decodes, the callback
\* of cleanup up to its call of Delete.
FetchMeta ==
    /\ cleaner.state = "sweeping" /\ cleaner.pc = "fetch"
    /\ MayStep(Cleaner)
    /\ \E out \in GetOutcomes(Cleaner) :
         LET key == cleaner.page[cleaner.idx]
             obj == bucket[key]
             read == out = "ok" /\ obj # Absent /\ Decodable(obj)
             call == Call("ForEachMeta", "GetObject", key, out # "fail" /\ obj # Absent)
         IN /\ IF ~read
               THEN /\ cleaner' = AfterFetchError(cleaner, key)
                    /\ UNCHANGED proc
               ELSE IF cleaner.cb # "cleanup"
               THEN LET meta == DecodeMeta(obj)
                        cl == [cleaner EXCEPT !.visits = Append(@,
                                  [checksum |-> meta.checksum, expired |-> FALSE,
                                   del |-> "none"])]
                    IN /\ cleaner' = AfterCallback(cl, visitCallback(cleaner.cb))
                       /\ UNCHANGED proc
               ELSE LET meta == DecodeMeta(obj)
                        expired == IsExpired(meta, now)
                        cl == [cleaner EXCEPT !.visits = Append(@,
                                  [checksum |-> meta.checksum, expired |-> expired,
                                   del |-> "none"])]
                        f == [proc[Cleaner] EXCEPT !.meta = meta,
                                  !.check = [expired |-> expired, at |-> now]]
                    IN IF expired
                       THEN /\ proc' = [proc EXCEPT ![Cleaner] = BeginDelete(f, meta.checksum)]
                            /\ cleaner' = [cl EXCEPT !.pc = "delete"]
                       ELSE /\ proc' = [proc EXCEPT ![Cleaner] = f]
                            /\ cleaner' = AfterCallback(cl, cleanupCallback(NoErr))
            /\ faults' = Note(~(out = "fail" \/ (out = "readfail" /\ obj # Absent)))
    /\ UNCHANGED <<bucket, now, cancelled, tickPending, stored, sched, budget, signalled, removed, cfg, bucketExists>>

ForEachMeta == ListPage \/ FetchMeta \/ Delete(Cleaner)

\* ------------------------------------------------- Cleaner.cleanup, part 2
\* cleanup is entered: the pass begins with ForEachMeta's first page.
BeginCleanup(cl) ==
    [IdleCleaner EXCEPT !.state = "sweeping", !.pc = "list", !.more = TRUE,
                        !.ferr = Pending, !.start = Record(bucket, EmptyBucket),
                        !.t0 = now]

\* A cleanup that ends the goroutine when ForEachMeta returned an error.
cleanupComplete_ExitOnError ==
    /\ cleaner.state = "sweeping" /\ cleaner.pc = "complete"
    /\ cleaner' = [IdleCleaner EXCEPT !.state = IF cleaner.ferr = NoErr THEN "idle"
                                                ELSE "stopped"]
    /\ proc' = [proc EXCEPT ![Cleaner] = [IdleFrame EXCEPT !.handler = "cleanup"]]
    /\ UNCHANGED <<bucket, now, cancelled, tickPending, faults, stored, sched, budget, signalled, removed, cfg, bucketExists>>

\* ForEachMeta has returned: cleanup reports and returns to Start's loop.
cleanupComplete ==
    /\ cleaner.state = "sweeping" /\ cleaner.pc = "complete"
    /\ cleaner' = [IdleCleaner EXCEPT !.state = "idle"]
    /\ proc' = [proc EXCEPT ![Cleaner] = [IdleFrame EXCEPT !.handler = "cleanup"]]
    /\ UNCHANGED <<bucket, now, cancelled, tickPending, faults, stored, sched, budget, signalled, removed, cfg, bucketExists>>

cleanup == ForEachMeta \/ cleanupComplete

\* ---------------------------------------------------------- Cleaner.Start
\* A Start that waits for the first tick before it cleans up.
StartFirst_WaitForTick(cl) == [cl EXCEPT !.state = "idle"]

\* Start up to its loop: cleanup is called before the first select.
StartFirst(cl) == [BeginCleanup(cl) EXCEPT !.first = Record(TRUE, FALSE)]

\* Start is called: the ticker is created and cleanup runs at once.
StartCleaner ==
    /\ cleaner.state = "created"
    /\ MayStep(Cleaner)
    /\ cleaner' = StartFirst(cleaner)
    /\ UNCHANGED <<bucket, now, proc, cancelled, tickPending, faults, stored, sched, budget, signalled, removed, cfg, bucketExists>>

\* The ticker delivers a tick; a tick is dropped while one is pending.
TickerFire ==
    /\ cleaner.state \in {"sweeping", "idle"}
    /\ ~tickPending
    /\ tickPending' = TRUE
    /\ UNCHANGED <<bucket, now, proc, cleaner, cancelled, faults, stored, sched, budget, signalled, removed, cfg, bucketExists>>

\* A ticker whose tick calls cleanup at once, also while a pass is running.
SelectTick_AnyTime ==
    /\ cleaner.state \in {"idle", "sweeping"}
    /\ tickPending
    /\ MayStep(Cleaner)
    /\ tickPending' = FALSE
    /\ cleaner' = BeginCleanup(cleaner)
    /\ UNCHANGED <<bucket, now, proc, cancelled, faults, stored, sched, budget, signalled, removed, cfg, bucketExists>>

\* select: case <-ticker.C
SelectTick ==
    /\ cleaner.state = "idle"
    /\ tickPending
    /\ MayStep(Cleaner)
    /\ tickPending' = FALSE
    /\ cleaner' = BeginCleanup(cleaner)
    /\ UNCHANGED <<bucket, now, proc, cancelled, faults, stored, sched, budget, signalled, removed, cfg, bucketExists>>

\* A loop that may return while its context is not done.
SelectDone_Uncancelled ==
    /\ cleaner.state = "idle"
    /\ cleaner' = [cleaner EXCEPT !.state = "stopped"]
    /\ UNCHANGED <<bucket, now, proc, cancelled, tickPending, faults, stored, sched, budget, signalled, removed, cfg, bucketExists>>

\* select: case <-ctx.Done()
SelectDone ==
    /\ cleaner.state = "idle"
    /\ cancelled
    /\ cleaner' = [cleaner EXCEPT !.state = "stopped"]
    /\ UNCHANGED <<bucket, now, proc, cancelled, tickPending, faults, stored, sched, budget, signalled, removed, cfg, bucketExists>>

Start == StartCleaner \/ SelectTick \/ SelectDone \/ cleanup

\* run's deferred cleanupCancel()
cleanupCancel ==
    /\ ~cancelled
    /\ cancelled' = TRUE
    /\ UNCHANGED <<bucket, now, proc, cleaner, tickPending, faults, stored, sched, budget, signalled, removed, cfg, bucketExists>>

\* run, which has started the cleanup goroutine, receives SIGINT or SIGTERM
\* and goes on to srv.Shutdown; cleanupCtx is cancelled when run returns.
shutdownSignal ==
    /\ cleaner.state # "created"
    /\ ~signalled
    /\ ~cancelled
    /\ signalled' = TRUE
    /\ UNCHANGED <<bucket, now, proc, cleaner, cancelled, tickPending, faults, stored, sched, budget, removed, cfg, bucketExists>>

\* ------------------------------------------------------------ environment
\* Time passes.
AdvanceTime ==
    /\ now < MaxTime
    /\ now' = now + 1
    /\ UNCHANGED <<bucket, proc, cleaner, cancelled, tickPending, faults, stored, sched, budget, signalled, removed, cfg, bucketExists>>

\* An object of the bucket is replaced out-of-band: a content object by
\* other bytes, a metadata object by bytes that do not decode.
Tamper ==
    /\ \E c \in Checksums :
         /\ \/ /\ bucket[PasteKey(c)] # Absent
               /\ \E other \in Contents \ {bucket[PasteKey(c)].body} :
                    bucket' = [bucket EXCEPT ![PasteKey(c)] = TextObject(other)]
            \/ /\ Decodable(bucket[MetaKey(c)])
               /\ bucket' = [bucket EXCEPT ![MetaKey(c)] = Undecodable]
         /\ stored' = Record([stored EXCEPT ![c] = NoStore], stored)
    /\ UNCHANGED <<now, proc, cleaner, cancelled, tickPending, faults, sched, budget, signalled, removed, cfg, bucketExists>>

\* The program and the clock.
Program ==
    \/ \E r \in Requests : handleCreate(r)
    \/ \E r \in Requests : handleLookup(r)
    \/ \E r \in Requests : Store(r) \/ Get(r) \/ Delete(r)
    \/ \E r \in Requests : Respond(r)
    \/ Start
    \/ TickerFire
    \/ cleanupCancel
    \/ AdvanceTime

Next == Program \/ Tamper

\* Goroutines interleave at their backend calls; every backend call is
\* served.
Spec == Init /\ [][Program]_vars

\* The program's operations one at a time; up to MaxFailures backend calls
\* fail.
SeqSpec == InitSeq /\ [][Program]_vars

\* The program's operations one at a time, every backend call served, with
\* the bucket also written out-of-band.
EnvSpec == InitOpen /\ [][Next]_vars


\* ------------------------------------------------- the service restarted
\* The content whose checksum is c.
ContentOf(c) == CHOOSE x \in Contents : ComputeChecksum(x) = c

\* What an earlier run of the service can have left under the keys of
\* checksum c: nothing, or a content object with or without its metadata
\* object, or a metadata object alone (Store and Delete are not atomic);
\* the metadata object may have been replaced by bytes that do not decode.
PersistedContent(c) == {Absent, TextObject(ContentOf(c))}
PersistedMeta(c) ==
    {Absent, Undecodable}
    \cup {MarshalMeta(NewMeta(c, Len(ContentOf(c)), ttl, 0)) : ttl \in 1..MaxTTL}
PersistedBuckets ==
    {b \in [Keys -> UNION {PersistedContent(c) \cup PersistedMeta(c) : c \in Checksums}] :
        \A c \in Checksums : /\ b[PasteKey(c)] \in PersistedContent(c)
                              /\ b[MetaKey(c)] \in PersistedMeta(c)}

\* The service starts on a bucket an earlier run has left.
InitRestart ==
    /\ bucket \in PersistedBuckets
    /\ now \in 0..MaxTime
    /\ proc = [p \in Procs |-> IF p = Cleaner
                                 THEN [IdleFrame EXCEPT !.handler = "cleanup"]
                                 ELSE IdleFrame]
    /\ cleaner = IdleCleaner
    /\ cancelled = FALSE
    /\ tickPending = FALSE
    /\ faults = 0
    /\ stored = [c \in Checksums |-> NoStore]
    /\ signalled = FALSE
    /\ removed = {}
    /\ cfg = DefaultConfig
    /\ bucketExists = TRUE
    /\ sched = "sequential"
    /\ budget = MaxFailures

\* ForEachMeta is called with one of the test callbacks.
callForEachMeta ==
    /\ cleaner.state = "created"
    /\ \E cb \in {"visit", "stop"} :
         cleaner' = [BeginCleanup(cleaner) EXCEPT !.cb = cb]
    /\ UNCHANGED <<bucket, now, proc, cancelled, tickPending, faults, stored, sched, budget, signalled, removed, cfg, bucketExists>>

\* ForEachMeta returns to its caller, which keeps what the callback recorded.
returnForEachMeta ==
    /\ cleaner.state = "sweeping" /\ cleaner.pc = "complete"
    /\ cleaner.cb # "cleanup"
    /\ cleaner' = [cleaner EXCEPT !.state = "returned", !.pc = "none"]
    /\ UNCHANGED <<bucket, now, proc, cancelled, tickPending, faults, stored, sched, budget, signalled, removed, cfg, bucketExists>>

\* One call of ForEachMeta by a caller other than cleanup.
Walk == callForEachMeta \/ ListPage \/ FetchMeta \/ returnForEachMeta

\* ForEachMeta with the test callbacks over a bucket left by an earlier run.
WalkSpec == InitRestart /\ [][Walk]_vars

\* The cleanup goroutine, its ticker and context, and the clock.
Sweeper ==
    \/ Start
    \/ TickerFire
    \/ cleanupCancel
    \/ AdvanceTime

\* The cleanup goroutine while run waits for its signal and shuts down.
SweeperAndSignal == Sweeper \/ shutdownSignal

\* The cleanup goroutine over a bucket left by an earlier run.  The
\* goroutine keeps being scheduled and the ticker keeps ticking; select
\* picks among its ready cases at random, so a case that is ready again and
\* again is taken.
SweepSpec ==
    /\ InitRestart
    /\ [][Sweeper]_vars
    /\ WF_vars(Start)
    /\ WF_vars(TickerFire)
    /\ SF_vars(SelectDone)

\* The same, with the shutdown signal of the process.
ShutdownSpec ==
    /\ InitRestart
    /\ [][SweeperAndSignal]_vars
    /\ WF_vars(Start)
    /\ WF_vars(TickerFire)
    /\ SF_vars(SelectDone)

\* The bucket as requests may find it: what an earlier run has left, and
\* content objects whose bytes are no longer those of their checksum.
DamagedContent(c) == {TextObject(other) : other \in Contents \ {ContentOf(c)}}
AccessBuckets ==
    {b \in [Keys -> UNION {PersistedContent(c) \cup DamagedContent(c) \cup PersistedMeta(c)
                             : c \in Checksums}] :
        \A c \in Checksums :
            /\ b[PasteKey(c)] \in PersistedContent(c) \cup DamagedContent(c)
            /\ b[MetaKey(c)] \in PersistedMeta(c)}

InitAccess ==
    /\ bucket \in AccessBuckets
    /\ now \in 0..MaxTime
    /\ proc = [p \in Procs |-> IF p = Cleaner
                                 THEN [IdleFrame EXCEPT !.handler = "cleanup"]
                                 ELSE IdleFrame]
    /\ cleaner = IdleCleaner
    /\ cancelled = FALSE
    /\ tickPending = FALSE
    /\ faults = 0
    /\ stored = [c \in Checksums |-> NoStore]
    /\ sched = "sequential"
    /\ budget = MaxFailures
    /\ signalled = FALSE
    /\ removed = {}
    /\ cfg = DefaultConfig
    /\ bucketExists = TRUE

\* The view, raw and delete requests.
Access ==
    \/ \E r \in Requests : handleLookup(r)
    \/ \E r \in Requests : Get(r) \/ Delete(r)
    \/ \E r \in Requests : Respond(r)

\* Lookups over such a bucket, with backend calls that may fail.
AccessSpec == InitAccess /\ [][Access]_vars

\* A request is served while the cleanup goroutine runs the pass of Start
\* over a bucket an earlier run has left; no backend call fails.
InitRace ==
    /\ bucket \in PersistedBuckets
    /\ now \in 0..MaxTime
    /\ proc = [p \in Procs |-> IF p = Cleaner
                                 THEN [IdleFrame EXCEPT !.handler = "cleanup"]
                                 ELSE IdleFrame]
    /\ cleaner = IdleCleaner
    /\ cancelled = FALSE
    /\ tickPending = FALSE
    /\ faults = 0
    /\ stored = [c \in Checksums |-> NoStore]
    /\ sched = "concurrent"
    /\ budget = 0
    /\ signalled = FALSE
    /\ removed = {}
    /\ cfg = DefaultConfig
    /\ bucketExists = TRUE

Racing ==
    \/ \E r \in Requests : handleLookup(r)
    \/ \E r \in Requests : Get(r) \/ Delete(r)
    \/ \E r \in Requests : Respond(r)
    \/ StartCleaner
    \/ cleanup

RaceSpec == InitRace /\ [][Racing]_vars

\* Create requests are served while the cleanup goroutine runs the pass of
\* Start over a bucket an earlier run has left; no backend call fails.
RecreateSpec ==
    /\ InitRace
    /\ [][\/ \E r \in Requests : handleCreate(r) \/ Store(r) \/ Respond(r)
          \/ StartCleaner
          \/ cleanup]_vars

\* Create requests whose context may become done at any point of Store,
\* over a bucket an earlier run has left.
CancelSpec ==
    /\ InitRestart
    /\ [][\E r \in Requests :
            \/ handleCreate(r)
            \/ Store(r)
            \/ requestCancel(r)
            \/ StoreAborted(r)
            \/ Respond(r)]_vars

\* The view, raw and delete requests and the cleanup goroutine with its
\* ticker, one operation at a time, over a bucket an earlier run has left:
\* content objects with or without metadata, metadata that does not decode.
OrphanSpec ==
    /\ InitRestart
    /\ [][Access \/ StartCleaner \/ TickerFire \/ SelectTick \/ cleanup]_vars

\* ---------------------------------------------------------- storage.New
\* The bucket as run finds it at startup: not there, or there with what an
\* earlier run has left in it.
InitProvision ==
    /\ bucketExists \in BOOLEAN
    /\ bucket \in IF bucketExists THEN PersistedBuckets ELSE {EmptyBucket}
    /\ now \in 0..MaxTime
    /\ proc = [p \in Procs |-> IF p = Cleaner
                                 THEN [IdleFrame EXCEPT !.handler = "cleanup"]
                                 ELSE IdleFrame]
    /\ cleaner = IdleCleaner
    /\ cancelled = FALSE
    /\ tickPending = FALSE
    /\ faults = 0
    /\ stored = [c \in Checksums |-> NoStore]
    /\ signalled = FALSE
    /\ removed = {}
    /\ cfg = DefaultConfig
    /\ sched = "sequential"
    /\ budget = MaxFailures

\* New returns to run: the storage, or the error of ensureBucketExists
\* wrapped.
NewReturn(f, err) ==
    [f EXCEPT !.pc = "done",
              !.err = IF err = NoErr THEN NoErr
                      ELSE Err("failed to ensure bucket exists", err.msg),
              !.ret = [storage |-> err = NoErr]]

\* What HeadBucket reports: the bucket is there, the backend says it is
\* not (types.NotFound), or the call failed otherwise.
HeadBucketResult(exists, ok) ==
    IF ~ok THEN "error" ELSE IF exists THEN "exists" ELSE "absent"

\* An ensureBucketExists that answers every failed probe with a create call.
AfterHeadBucket_CreateOnAnyError(f, result) ==
    IF result = "exists" THEN NewReturn(f, NoErr)
    ELSE [f EXCEPT !.pc = "create_bucket"]

\* ensureBucketExists after its probe.
AfterHeadBucket(f, result) ==
    IF result = "exists" THEN NewReturn(f, NoErr)
    ELSE IF result # "absent" THEN NewReturn(f, Err("failed to check bucket", "transport"))
    ELSE [f EXCEPT !.pc = "create_bucket"]

\* run calls storage.New, which builds the client and calls
\* ensureBucketExists; p is the goroutine of run.
callNew(p) ==
    /\ proc[p].pc = "idle"
    /\ proc' = [proc EXCEPT ![p] = [IdleFrame EXCEPT !.handler = "New",
                                       !.fn = "ensureBucketExists",
                                       !.pc = "head_bucket", !.err = Pending]]
    /\ UNCHANGED <<bucket, now, cleaner, cancelled, tickPending, faults, stored, sched, budget, signalled, removed, cfg, bucketExists>>

\* The probe: one HeadBucket call.
HeadBucket(p) ==
    /\ proc[p].pc = "head_bucket"
    /\ \E ok \in Outcomes(p) :
         LET f == proc[p]
             result == HeadBucketResult(bucketExists, ok)
             call == Call("ensureBucketExists", "HeadBucket", "", result = "exists")
             g == [f EXCEPT !.calls = Append(@, call), !.check = [probe |-> result]]
         IN /\ proc' = [proc EXCEPT ![p] = AfterHeadBucket(g, result)]
            /\ faults' = Note(ok)
    /\ UNCHANGED <<bucket, now, cleaner, cancelled, tickPending, stored, sched, budget, signalled, removed, cfg, bucketExists>>

\* The create call after a probe that found no bucket.
CreateBucket(p) ==
    /\ proc[p].pc = "create_bucket"
    /\ \E ok \in Outcomes(p) :
         LET f == proc[p]
             created == ok /\ ~bucketExists
             call == Call("ensureBucketExists", "CreateBucket", "", created)
             g == [f EXCEPT !.calls = Append(@, call)]
         IN /\ bucketExists' = (bucketExists \/ created)
            /\ proc' = [proc EXCEPT ![p] =
                          NewReturn(g, IF created THEN NoErr
                                       ELSE Err("failed to create bucket", "transport"))]
            /\ faults' = Note(ok)
    /\ UNCHANGED <<bucket, now, cleaner, cancelled, tickPending, stored, sched, budget, signalled, removed, cfg>>

New(p) == callNew(p) \/ HeadBucket(p) \/ CreateBucket(p)

\* run up to the return of storage.New.
ProvisionSpec == InitProvision /\ [][\E p \in Requests : New(p)]_vars

\* ------------------------------------------------------ S3Storage.Exists
\* The error of a backend call as the client returns it, not wrapped.
BackendErr == [msg |-> "operation error", cause |-> "transport"]

\* An Exists that returns every error of HeadObject, NotFound included.
ExistsResult_NotFoundIsError(obj, ok) ==
    IF ~ok \/ obj = Absent THEN [exists |-> FALSE, err |-> BackendErr]
    ELSE [exists |-> TRUE, err |-> NoErr]

\* What Exists returns after HeadObject on an object obj (Absent when there
\* is none): an error when the call failed, false when the backend answers
\* NotFound, true otherwise.
ExistsResult(obj, ok) ==
    IF ~ok THEN [exists |-> FALSE, err |-> BackendErr]
    ELSE IF obj = Absent THEN [exists |-> FALSE, err |-> NoErr]
    ELSE [exists |-> TRUE, err |-> NoErr]

\* A caller calls Exists(checksum).
callExists(r) ==
    /\ proc[r].pc = "idle"
    /\ MayStep(r)
    /\ \E checksum \in Checksums :
         proc' = [proc EXCEPT ![r] =
                [IdleFrame EXCEPT !.handler = "exists", !.pc = "head_paste",
                                  !.fn = "Exists", !.err = Pending,
                                  !.checksum = checksum]]
    /\ UNCHANGED <<bucket, now, cleaner, cancelled, tickPending, faults, stored, sched, budget, signalled, removed, cfg, bucketExists>>

\* Exists: the HeadObject on the content object, and the return.
Exists(p) ==
    /\ proc[p].pc = "head_paste"
    /\ MayStep(p)
    /\ \E ok \in Outcomes(p) :
         LET f == proc[p]
             pasteKey == PasteKey(f.checksum)
             result == ExistsResult(bucket[pasteKey], ok)
             call == Call("Exists", "HeadObject", pasteKey, ok /\ bucket[pasteKey] # Absent)
         IN /\ proc' = [proc EXCEPT ![p] =
                   [f EXCEPT !.pc = "done", !.calls = Append(@, call),
                             !.ret = [exists |-> result.exists],
                             !.err = result.err]]
            /\ faults' = Note(ok)
    /\ UNCHANGED <<bucket, now, cleaner, cancelled, tickPending, stored, sched, budget, signalled, removed, cfg, bucketExists>>

\* Existence probes over a bucket as requests may find it.
Probe ==
    \/ \E r \in Requests : callExists(r)
    \/ \E r \in Requests : Exists(r)
    \/ \E r \in Requests : Respond(r)

ProbeSpec == InitAccess /\ [][Probe]_vars

\* The configurations of the runs that serve any client: a default TTL
\* that is negative, zero, one hour or a day, and a size limit that is the
\* size of one of the contents.
Configs ==
    {[DefaultTTL |-> d, MaxPasteSize |-> m] :
        d \in {-1, 0, 1, 24}, m \in {Len(content) : content \in Contents}}

InitRequests ==
    /\ bucket = EmptyBucket
    /\ now = 0
    /\ proc = [p \in Procs |-> IF p = Cleaner
                                 THEN [IdleFrame EXCEPT !.handler = "cleanup"]
                                 ELSE IdleFrame]
    /\ cleaner = IdleCleaner
    /\ cancelled = FALSE
    /\ tickPending = FALSE
    /\ faults = 0
    /\ stored = [c \in Checksums |-> NoStore]
    /\ sched = "sequential"
    /\ budget = 0
    /\ signalled = FALSE
    /\ removed = {}
    /\ cfg \in Configs
    /\ bucketExists = TRUE

\* The handlers with the requests of any client, one request at a time.
Serving ==
    \/ \E r \in Requests : anyCreate(r)
    \/ \E r \in Requests : anyLookup(r)
    \/ \E r \in Requests : Store(r) \/ Get(r) \/ Delete(r)
    \/ \E r \in Requests : Respond(r)

RequestSpec == InitRequests /\ [][Serving]_vars

\* The create handler with the requests of any client at any time of the
\* run, with backend calls that may fail.
InitCreates ==
    /\ bucket = EmptyBucket
    /\ now \in 0..MaxTime
    /\ proc = [p \in Procs |-> IF p = Cleaner
                                 THEN [IdleFrame EXCEPT !.handler = "cleanup"]
                                 ELSE IdleFrame]
    /\ cleaner = IdleCleaner
    /\ cancelled = FALSE
    /\ tickPending = FALSE
    /\ faults = 0
    /\ stored = [c \in Checksums |-> NoStore]
    /\ sched = "sequential"
    /\ budget = MaxFailures
    /\ signalled = FALSE
    /\ removed = {}
    /\ cfg \in Configs
    /\ bucketExists = TRUE

CreateSpec ==
    /\ InitCreates
    /\ [][\E r \in Requests : anyCreate(r) \/ Store(r) \/ Respond(r)]_vars

\* The inputs isValidChecksum is tried on: hexadecimal strings of the
\* lengths around checksumLength, in lower and in upper case, and each of
\* them with one character replaced by a character next to the ranges of
\* the hexadecimal digits.
FuzzLengths == {0, 1, 6, checksumLength - 1, checksumLength, checksumLength + 1,
                checksumLength + 2, 2 * checksumLength}
NonHex == {" ", "-", "/", ":", "@", "G", "g", "z"}
HexStrings ==
    UNION {{SubSeq(HelloChars \o AbcChars, 1, n),
            Upper(SubSeq(HelloChars \o AbcChars, 1, n))} : n \in FuzzLengths}
FuzzInputs ==
    HexStrings
    \cup UNION {{[str EXCEPT ![i] = ch] : i \in 1..Len(str), ch \in NonHex}
                : str \in HexStrings}

\* isValidChecksum is called on an input and returns.
FuzzIsValidChecksum(r) ==
    /\ proc[r].pc = "idle"
    /\ \E str \in FuzzInputs :
         proc' = [proc EXCEPT ![r] =
                [IdleFrame EXCEPT !.handler = "isValidChecksum", !.pc = "done",
                                  !.req = [path |-> str],
                                  !.ret = [valid |-> isValidChecksum(str)]]]
    /\ UNCHANGED <<bucket, now, cleaner, cancelled, tickPending, faults, stored, sched, budget, signalled, removed, cfg, bucketExists>>

Fuzz ==
    \/ \E r \in Requests : FuzzIsValidChecksum(r)
    \/ \E r \in Requests : Respond(r)

FuzzSpec == InitSeq /\ [][Fuzz]_vars

\* ================================================================= claims
\* Get has returned to the handler of request r: the handler is done with
\* Get's result, or is about to call Delete with it.
GetReturned(f) ==
    \/ f.fn = "Get" /\ f.pc = "done"
    \/ f.handler \in {"view", "raw", "delete"} /\ f.fn = "Delete" /\ f.calls = <<>>

\* What Get returned to the handler: a handler that went on to Delete did so
\* after a Get that returned no error.
GetErr(f) == IF f.fn = "Get" THEN f.err ELSE NoErr

\* C1: when the bytes Get fetched from pastes/c hash to another value than
\* c, Get returns ErrChecksumMismatch with no paste and no metadata, having
\* issued the content fetch alone (no fetch of the metadata object), and
\* the handler serves none of the fetched bytes.
C1_CorruptionDetected ==
    \A r \in Requests :
        LET f == proc[r] IN
        (/\ f.fn = "Get"
         /\ Len(f.calls) >= 1
         /\ f.calls[1].ok
         /\ f.err.msg # "failed to read paste content"
         /\ ComputeChecksum(f.content) # f.checksum)
        => /\ f.pc = "done"
           /\ f.err.msg = ErrChecksumMismatch
           /\ f.ret = NilRet
           /\ Len(f.calls) = 1
           /\ f.calls[1].key = PasteKey(f.checksum)
           /\ f.body = ""

\* A Get has returned ErrChecksumMismatch for content replaced out-of-band,
\* the metadata object being there to fetch.
C1_Witness ==
    \E r \in Requests :
        LET f == proc[r] IN
        /\ f.fn = "Get" /\ f.pc = "done"
        /\ f.err.msg = ErrChecksumMismatch
        /\ bucket[PasteKey(f.checksum)] # Absent
        /\ ComputeChecksum(bucket[PasteKey(f.checksum)].body) # f.checksum
        /\ Decodable(bucket[MetaKey(f.checksum)])

\* Two Meta values are equal up to the serialization format: same checksum
\* and size, same instants.
MetaEqual(a, b) ==
    /\ a.checksum = b.checksum
    /\ a.size = b.size
    /\ TimeEqual(a.created_at, b.created_at)
    /\ TimeEqual(a.expires_at, b.expires_at)

\* C2: after Store(p, m) succeeded and nothing else touched p.checksum, a
\* Get(p.checksum) whose fetches the backend serves succeeds and returns
\* p.content, p.checksum and metadata equal to m.
C2_RoundTrip ==
    \A r \in Requests :
        LET f == proc[r]
            st == stored[f.checksum]
        IN (GetReturned(f) /\ f.checksum \in Checksums /\ st # NoStore)
           => \/ GetErr(f).cause = "transport"
              \/ /\ GetErr(f) = NoErr
                 /\ f.ret # NilRet
                 /\ f.ret.paste.content = st.content
                 /\ f.ret.paste.checksum = st.checksum
                 /\ MetaEqual(f.ret.meta, st.meta)

\* A view of a stored, untouched paste has been answered with its content.
C2_Witness ==
    \E r \in Requests :
        LET f == proc[r] IN
        /\ f.fn = "Get" /\ f.pc = "done" /\ f.err = NoErr
        /\ stored[f.checksum] # NoStore
        /\ f.status = 200
        /\ f.body = stored[f.checksum].content

\* The backend calls of a Store so far: the content write first, the
\* metadata write only after a content write that succeeded, nothing else.
StoreCallsOrdered(f) ==
    /\ Len(f.calls) <= 2
    /\ Len(f.calls) >= 1 => /\ f.calls[1].op = "PutObject"
                            /\ f.calls[1].key = PasteKey(f.checksum)
    /\ Len(f.calls) = 2 => /\ f.calls[1].ok
                           /\ f.calls[2].op = "PutObject"
                           /\ f.calls[2].key = MetaKey(f.checksum)

ContentWriteFailed(f) ==
    f.fn = "Store" /\ Len(f.calls) >= 1 /\ ~f.calls[1].ok

\* C3: within Store the content write comes before the metadata write; a
\* failed content write makes Store return an error at once, and that Store
\* issues no metadata write: the metadata object of the checksum stays as
\* it was.
C3_ContentWriteFirst ==
    [][\A r \in Requests :
         LET f == proc[r]
             g == proc'[r]
         IN /\ g.fn = "Store" => StoreCallsOrdered(g)
            /\ (f.fn = "Store" /\ f.calls = <<>> /\ ContentWriteFailed(g))
               => /\ g.pc = "done"
                  /\ g.err.msg = "failed to store paste"
                  /\ g.status = 500
                  /\ bucket' = bucket
            /\ ContentWriteFailed(f)
               => /\ g = f \/ g = IdleFrame
                  /\ bucket'[MetaKey(f.checksum)] = bucket[MetaKey(f.checksum)]
      ]_vars

\* A Store of a paste that is already stored has failed in its content
\* write; the metadata object is there.
C3_Witness ==
    \E r \in Requests :
        LET f == proc[r] IN
        /\ ContentWriteFailed(f) /\ f.pc = "done"
        /\ Decodable(bucket[MetaKey(f.checksum)])

MetaWriteFailed(f) ==
    f.fn = "Store" /\ Len(f.calls) = 2 /\ ~f.calls[2].ok

\* C4: when the metadata write fails after the content write succeeded,
\* Store returns an error, has issued no delete, and the content object is
\* in the bucket.
C4_MetaWriteFailure ==
    \A r \in Requests :
        LET f == proc[r] IN
        MetaWriteFailed(f)
        => /\ f.pc = "done"
           /\ f.err # NoErr
           /\ f.err.msg = "failed to store metadata"
           /\ f.status = 500
           /\ f.calls[1].ok
           /\ \A i \in 1..Len(f.calls) : f.calls[i].op = "PutObject"
           /\ bucket[PasteKey(f.checksum)] = TextObject(f.content)

\* A Store has failed in its metadata write and left the content object
\* without a metadata object.
C4_Witness ==
    \E r \in Requests :
        LET f == proc[r] IN
        /\ MetaWriteFailed(f) /\ f.pc = "done"
        /\ bucket[PasteKey(f.checksum)] = TextObject(f.content)
        /\ bucket[MetaKey(f.checksum)] = Absent


\* The metadata objects in the bucket whose checksum field is c.
MetaObjectsOf(c) ==
    {k \in MetaKeys : Decodable(bucket[k]) /\ DecodeMeta(bucket[k]).checksum = c}

\* Every stored content object has exactly one stored metadata object with
\* its checksum.
ExactlyOneMeta ==
    \A c \in Checksums :
        bucket[PasteKey(c)] # Absent
        => /\ Cardinality(MetaObjectsOf(c)) = 1
           /\ MetaObjectsOf(c) = {MetaKey(c)}

\* No goroutine is inside a storage operation.
NoOperationInProgress == \A p \in Procs : proc[p].pc \in {"idle", "done"}

DeleteCallsOrdered(f) ==
    /\ Len(f.calls) <= 2
    /\ Len(f.calls) >= 1 => /\ f.calls[1].op = "DeleteObject"
                            /\ f.calls[1].key = PasteKey(f.checksum)
    /\ Len(f.calls) = 2 => /\ f.calls[2].op = "DeleteObject"
                           /\ f.calls[2].key = MetaKey(f.checksum)

\* Delete has returned in goroutine p.
DeleteReturned(p) ==
    /\ proc[p].fn = "Delete"
    /\ proc[p].pc = IF p = Cleaner THEN "idle" ELSE "done"

FailedCalls(f) == {i \in 1..Len(f.calls) : ~f.calls[i].ok}

\* C6: Delete(c) issues the delete of pastes/c first and the delete of
\* meta/c.json after it; with both calls served it returns no error and both
\* objects are gone; with a failed call it returns an error.
C6_DeleteOrderAndResult ==
    \A p \in Procs :
        LET f == proc[p] IN
        f.fn = "Delete"
        => /\ DeleteCallsOrdered(f)
           /\ DeleteReturned(p)
              => /\ Len(f.calls) >= 1
                 /\ (Len(f.calls) = 2 /\ FailedCalls(f) = {})
                    => /\ f.err = NoErr
                       /\ bucket[PasteKey(f.checksum)] = Absent
                       /\ bucket[MetaKey(f.checksum)] = Absent
                 /\ FailedCalls(f) # {} => f.err # NoErr /\ f.err # Pending
                 /\ f.err = NoErr => Len(f.calls) = 2 /\ FailedCalls(f) = {}

\* The delete handler has deleted a paste: content delete, then metadata
\* delete, both served.
C6_Witness ==
    \E r \in Requests :
        LET f == proc[r] IN
        /\ f.handler = "delete" /\ DeleteReturned(r)
        /\ Len(f.calls) = 2 /\ FailedCalls(f) = {}
        /\ f.status = 303

MetaWithoutContent(c) ==
    bucket[MetaKey(c)] # Absent /\ bucket[PasteKey(c)] = Absent

ContentWithoutMeta(c) ==
    bucket[PasteKey(c)] # Absent /\ bucket[MetaKey(c)] = Absent

\* C7 as stated: with at most one failed backend call, no operation leaves
\* a metadata object whose content object is missing.
C7_NeverMetaWithoutContent ==
    (NoOperationInProgress /\ faults <= 1)
    => \A c \in Checksums : ~MetaWithoutContent(c)

\* C7 as amended: a Store of which one backend call failed leaves no
\* metadata object without its content object (at worst a content object
\* without metadata); a Delete of which one backend call failed leaves no
\* content object without its metadata object, and when the failed call is
\* the metadata delete it leaves the metadata object without its content
\* object.
C7_SinglePartialFailure ==
    \A p \in Procs :
        LET f == proc[p] IN
        (faults = 1 /\ Cardinality(FailedCalls(f)) = 1)
        => /\ (f.fn = "Store" /\ f.pc = "done")
              => /\ \A c \in Checksums : ~MetaWithoutContent(c)
                 /\ MetaWriteFailed(f) => bucket[PasteKey(f.checksum)] # Absent
           /\ DeleteReturned(p)
              => /\ \A c \in Checksums : ~ContentWithoutMeta(c)
                 /\ Len(f.calls) = 2 => MetaWithoutContent(f.checksum)
                 /\ Len(f.calls) = 1 => ~MetaWithoutContent(f.checksum)

\* A Delete whose metadata delete failed has returned: the metadata object
\* is in the bucket and the content object is not.
C7_Witness ==
    \E p \in Procs :
        LET f == proc[p] IN
        /\ faults = 1 /\ DeleteReturned(p)
        /\ Len(f.calls) = 2 /\ FailedCalls(f) = {2}
        /\ MetaWithoutContent(f.checksum)


\* A sweep pass has run to its end: ForEachMeta has returned.
PassComplete == cleaner.state = "sweeping" /\ cleaner.pc = "complete"

\* The metadata of checksum c as the pass found the bucket.
StartMeta(c) == DecodeMeta(cleaner.start[MetaKey(c)])
ReadableAtStart(c) == Decodable(cleaner.start[MetaKey(c)])

\* Both objects of checksum c are as the pass found them.
Untouched(c) ==
    /\ bucket[PasteKey(c)] = cleaner.start[PasteKey(c)]
    /\ bucket[MetaKey(c)] = cleaner.start[MetaKey(c)]

Removed(c) ==
    bucket[PasteKey(c)] = Absent /\ bucket[MetaKey(c)] = Absent

\* C8: a sweep pass with no overlapping operation and no failed backend
\* call removes both objects of every paste whose metadata was expired when
\* the pass began, leaves both objects of every paste whose metadata is not
\* expired untouched, and counts the pastes it removed.
C8_SweepCorrectness ==
    (PassComplete /\ faults = 0)
    => /\ cleaner.ferr = NoErr
       /\ \A c \in Checksums :
            ReadableAtStart(c)
            => /\ IsExpired(StartMeta(c), cleaner.t0) => Removed(c)
               /\ ~IsExpired(StartMeta(c), now) => Untouched(c)
               /\ Removed(c) \/ Untouched(c)
       /\ cleaner.deleted =
            Cardinality({c \in Checksums : ReadableAtStart(c) /\ Removed(c)})

\* A pass over two pastes, one expired and one not, is complete: the
\* expired one is removed, the other is there.
C8_Witness ==
    /\ PassComplete /\ faults = 0
    /\ \E c, d \in Checksums :
         /\ ReadableAtStart(c) /\ IsExpired(StartMeta(c), cleaner.t0) /\ Removed(c)
         /\ ReadableAtStart(d) /\ ~IsExpired(StartMeta(d), now)
         /\ bucket[PasteKey(d)] # Absent /\ bucket[MetaKey(d)] # Absent

AsSet(seq) == {seq[i] : i \in 1..Len(seq)}

\* C9: a Delete that fails during a sweep pass does not end the pass: the
\* callback returns no error to ForEachMeta, ForEachMeta returns no error
\* but that of a failed listing, and Delete is called for every expired
\* metadata entry the pass reads.
C9_FailedDeleteDoesNotStopPass ==
    cleaner.state = "sweeping"
    => /\ cleaner.ferr \in {Pending, NoErr, Err("failed to list metadata", "transport")}
       /\ \A i \in 1..Len(cleaner.visits) :
            cleaner.visits[i].expired
            => \/ cleaner.visits[i].del # "none"
               \/ i = Len(cleaner.visits) /\ cleaner.pc = "delete"
       /\ (PassComplete /\ cleaner.ferr = NoErr)
          => /\ ~cleaner.more
             /\ Len(cleaner.listed) = Len(cleaner.skipped) + Len(cleaner.visits)
             /\ \A c \in Checksums :
                  (/\ ReadableAtStart(c)
                   /\ IsExpired(StartMeta(c), cleaner.t0)
                   /\ MetaKey(c) \notin AsSet(cleaner.skipped))
                  => \E i \in 1..Len(cleaner.visits) :
                       /\ cleaner.visits[i].checksum = c
                       /\ cleaner.visits[i].del # "none"

\* The Delete of the first expired paste of a pass failed and Delete was
\* called for the second.
C9_Witness ==
    /\ cleaner.state = "sweeping"
    /\ Len(cleaner.visits) >= 2
    /\ cleaner.visits[1].expired /\ cleaner.visits[1].del \notin {"none", "nil"}
    /\ cleaner.visits[2].expired /\ cleaner.visits[2].del # "none"

\* The metadata the last expiry check of goroutine p was made on.
CheckedMeta(p) == IF p = Cleaner THEN proc[p].meta ELSE proc[p].ret.meta

FetchedExpired(f) ==
    /\ f.handler \in {"view", "raw"}
    /\ f.check # NoCheck
    /\ f.check.expired

\* C11: a view or raw request that fetches a paste whose metadata is
\* expired calls Delete for that checksum and answers 410 Gone without the
\* paste content, whether the Delete call succeeds or fails.
C11_LazyExpiryOnAccess ==
    \A r \in Requests :
        LET f == proc[r] IN
        FetchedExpired(f)
        => /\ f.fn = "Delete"
           /\ f.checksum = f.ret.paste.checksum
           /\ f.body = ""
           /\ f.pc \in {"delete_paste", "delete_meta", "done"}
           /\ f.pc = "done" => /\ f.status = 410
                               /\ Len(f.calls) >= 1
                               /\ f.calls[1].key = PasteKey(f.checksum)

\* An expired paste was viewed, the Delete call failed, and the answer is
\* 410 without content.
C11_Witness ==
    \E r \in Requests :
        LET f == proc[r] IN
        /\ FetchedExpired(f) /\ f.pc = "done"
        /\ f.err # NoErr
        /\ f.status = 410 /\ f.body = ""
        /\ bucket[PasteKey(f.checksum)] # Absent


\* C12: Start runs a sweep pass at once: the cleaner goes from created to
\* sweeping, not to idle, with no tick consumed; a tick is consumed only by
\* an idle cleaner, and the cleaner is idle only after a pass is complete.
C12_SweepsAtStart ==
    [][/\ (cleaner.state = "created" /\ cleaner'.state # "created")
          => /\ cleaner'.state = "sweeping"
             /\ cleaner'.pc = "list"
             /\ cleaner'.first
             /\ tickPending' = tickPending
       /\ (tickPending /\ ~tickPending') => (cleaner.state = "idle" /\ ~cleaner.first)
       /\ (cleaner.state # "idle" /\ cleaner'.state = "idle") => PassComplete
       /\ cleaner'.first => cleaner'.state = "sweeping"
      ]_vars

\* The pass that Start runs first is complete while the first tick still
\* waits in the ticker's channel.
C12_Witness ==
    /\ cleaner.first /\ PassComplete
    /\ tickPending
    /\ cleaner.deleted >= 1

\* C13: once cleanupCtx is cancelled the cleaner reaches stopped, idle or in
\* the middle of a pass; from then on the pass deletes nothing more; stopped
\* is never left.
C13_CancelStops ==
    /\ cancelled ~> cleaner.state = "stopped"
    /\ [][cancelled => bucket' = bucket]_vars
    /\ [][cleaner.state = "stopped" => cleaner'.state = "stopped"]_vars

\* A pass cancelled under way is complete: its listing was refused while
\* an expired paste was still to be listed, and the paste is in the bucket.
C13_Witness ==
    /\ cancelled /\ PassComplete
    /\ faults > budget
    /\ cleaner.ferr.msg = "failed to list metadata"
    /\ Len(cleaner.listed) >= 1
    /\ \E c \in Checksums :
         /\ ReadableAtStart(c)
         /\ IsExpired(StartMeta(c), cleaner.t0)
         /\ MetaKey(c) \notin AsSet(cleaner.listed)
         /\ bucket[PasteKey(c)] # Absent /\ bucket[MetaKey(c)] # Absent

\* C14: after run has received its shutdown signal no sweep pass begins.
C14_NoSweepAfterSignal ==
    [][signalled => ~(cleaner.state # "sweeping" /\ cleaner'.state = "sweeping")]_vars

\* The metadata object of checksum c decodes and is expired now.
ReadableExpired(c) ==
    /\ Decodable(bucket[MetaKey(c)])
    /\ IsExpired(DecodeMeta(bucket[MetaKey(c)]), now)

\* C15: while the cleaner is not cancelled and backend calls fail only
\* finitely often, a paste whose metadata object decodes and is expired is
\* eventually removed, content object and metadata object, also when it was
\* expired before the service started.
C15_ExpiredEventuallyRemoved ==
    \A c \in Checksums : ReadableExpired(c) ~> (Removed(c) \/ cancelled)

\* The pass that Start runs first has removed a paste that was expired when
\* the service started.
C15_Witness ==
    /\ cleaner.first /\ PassComplete /\ ~cancelled
    /\ cleaner.t0 = now
    /\ \E c \in Checksums :
         /\ ReadableAtStart(c)
         /\ IsExpired(StartMeta(c), cleaner.t0)
         /\ cleaner.start[PasteKey(c)] # Absent
         /\ Removed(c)


\* ForEachMeta is running or has returned to a caller other than cleanup.
Walking == cleaner.cb # "cleanup" /\ cleaner.state \in {"sweeping", "returned"}
WalkReturned == cleaner.cb # "cleanup" /\ cleaner.state = "returned"

StopErr == Err("stop iteration", "callback")

\* C16: when fetchMeta fails for a listed key (the fetch fails or the object
\* does not decode), ForEachMeta does not invoke the callback for it, goes
\* on with the next listed key, and returns no error on that account.
C16_FetchFailureSkipped ==
    [][/\ (cleaner.state = "sweeping" /\ Len(cleaner'.skipped) > Len(cleaner.skipped))
          => /\ cleaner'.visits = cleaner.visits
             /\ bucket' = bucket
             /\ cleaner'.ferr \in {Pending, NoErr}
             /\ cleaner.idx < Len(cleaner.page)
                => cleaner'.pc = "fetch" /\ cleaner'.idx = cleaner.idx + 1
             /\ (cleaner.idx = Len(cleaner.page) /\ cleaner.more)
                => cleaner'.pc = "list"
             /\ (cleaner.idx = Len(cleaner.page) /\ ~cleaner.more)
                => cleaner'.pc = "complete" /\ cleaner'.ferr = NoErr
       /\ cleaner'.ferr \in {Pending, NoErr, StopErr,
                             Err("failed to list metadata", "transport")}
       /\ (cleaner'.state = "returned" /\ cleaner'.ferr = NoErr)
          => /\ Len(cleaner'.listed) = Len(cleaner'.skipped) + Len(cleaner'.visits)
             /\ \A k \in AsSet(cleaner'.listed) :
                  ~Decodable(bucket'[k]) => k \in AsSet(cleaner'.skipped)
      ]_vars

\* ForEachMeta has returned no error: it skipped the first listed key, which
\* does not decode, and invoked the callback for the key listed after it.
C16_Witness ==
    /\ WalkReturned /\ cleaner.cb = "visit"
    /\ cleaner.ferr = NoErr
    /\ Len(cleaner.listed) = 2
    /\ cleaner.skipped = <<cleaner.listed[1]>>
    /\ bucket[cleaner.listed[1]] = Undecodable
    /\ Len(cleaner.visits) = 1

\* C17: when the callback returns an error ForEachMeta returns that error
\* at once: it fetches and visits nothing more; a callback that returns an
\* error on its first entry is invoked once, however many entries there are.
C17_StopsOnCallbackError ==
    [][cleaner'.cb = "stop"
       => /\ Len(cleaner'.visits) <= 1
          /\ Len(cleaner'.visits) = 1
             => /\ cleaner'.pc \in {"complete", "none"}
                /\ cleaner'.ferr = StopErr
          /\ cleaner'.ferr.cause = "callback" => Len(cleaner'.visits) = 1
          /\ Len(cleaner.visits) = 1
             => /\ cleaner'.listed = cleaner.listed
                /\ cleaner'.skipped = cleaner.skipped
                /\ cleaner'.visits = cleaner.visits
                /\ faults' = faults
      ]_vars

\* ForEachMeta has returned the error of the callback after one entry while
\* the bucket holds two metadata objects that decode.
C17_Witness ==
    /\ WalkReturned /\ cleaner.cb = "stop"
    /\ cleaner.ferr = StopErr
    /\ Len(cleaner.visits) = 1
    /\ \A k \in MetaKeys : Decodable(bucket[k])

VisitedChecksums == {cleaner.visits[i].checksum : i \in 1..Len(cleaner.visits)}

\* The callback was invoked once for every metadata object in the bucket and
\* ForEachMeta returned no error.
VisitedAllOnce ==
    /\ cleaner.ferr = NoErr
    /\ Len(cleaner.visits) = Cardinality({k \in MetaKeys : bucket[k] # Absent})
    /\ Cardinality(VisitedChecksums) = Len(cleaner.visits)
    /\ \A c \in Checksums : bucket[MetaKey(c)] # Absent => c \in VisitedChecksums

SecondRemove(r) ==
    /\ proc[r].handler = "delete"
    /\ proc[r].pc \notin {"idle", "done"}
    /\ proc[r].checksum \in removed

\* C19: with no recreation in between and no failed backend call, the first
\* remove(c) of an existing paste answers success (303) with both objects of
\* c gone, and a remove(c) after it answers not found (404) after one fetch
\* that finds no object, with the bucket as it was.
C19_RemoveTwice ==
    /\ [](\A r \in Requests :
            LET f == proc[r] IN
            (f.handler = "delete" /\ f.fn = "Delete" /\ f.pc = "done" /\ faults = 0)
            => /\ f.status = 303
               /\ Removed(f.checksum)
               /\ f.checksum \in removed)
    /\ [][\A r \in Requests :
            LET g == proc'[r] IN
            (SecondRemove(r) /\ g # proc[r] /\ faults' = 0)
            => /\ g.pc = "done"
               /\ g.status = 404
               /\ g.fn = "Get"
               /\ Len(g.calls) = 1
               /\ g.calls[1].key = PasteKey(g.checksum)
               /\ g.err.cause = "NoSuchKey"
               /\ bucket' = bucket
               /\ removed' = removed
         ]_vars

\* The second remove of a paste has been answered 404 while the other paste
\* is in the bucket with its metadata.
C19_Witness ==
    \E r \in Requests :
        LET f == proc[r] IN
        /\ f.handler = "delete" /\ f.fn = "Get" /\ f.pc = "done"
        /\ f.checksum \in removed
        /\ f.status = 404
        /\ faults = 0
        /\ \E d \in Checksums \ {f.checksum} :
             bucket[PasteKey(d)] # Absent /\ Decodable(bucket[MetaKey(d)])


\* What the caller of Get can tell from the error it gets, by errors.Is on
\* ErrChecksumMismatch and errors.As on the causes kept in the chain.
ErrorClass(err) ==
    IF err.msg = ErrChecksumMismatch THEN "corruption"
    ELSE IF err.cause = "NoSuchKey" THEN "not found"
    ELSE IF err.cause = "syntax" THEN "undecodable"
    ELSE "transport failure"

\* Get returns an error to request r in this step.
GetFails(r) ==
    /\ proc[r].fn = "Get" /\ proc[r].pc \in {"get_paste", "get_meta"}
    /\ proc'[r].fn = "Get" /\ proc'[r].pc = "done"
    /\ proc'[r].err # NoErr

\* C20: the error Get returns tells the caller what happened: its class is
\* not found exactly when the object it fetched is missing, corruption
\* exactly when the content fetched hashes to another checksum, transport
\* failure exactly when the backend call failed; the three are apart from
\* each other and from the error of a metadata object that does not decode.
C20_ErrorClassesApart ==
    [][\A r \in Requests :
         LET g == proc'[r]
             key == g.calls[Len(g.calls)].key
             obj == bucket[key]
             failed == faults' > faults
         IN GetFails(r)
            => /\ ErrorClass(g.err) = "transport failure" <=> failed
               /\ ErrorClass(g.err) = "not found" <=> (~failed /\ obj = Absent)
               /\ ErrorClass(g.err) = "corruption"
                  <=> /\ ~failed
                      /\ key = PasteKey(g.checksum)
                      /\ obj # Absent
                      /\ ComputeChecksum(obj.body) # g.checksum
               /\ ErrorClass(g.err) = "undecodable"
                  <=> (~failed /\ key = MetaKey(g.checksum) /\ obj = Undecodable)
               /\ g.ret = NilRet
      ]_vars

\* Get has returned a transport failure from the fetch of a metadata object
\* that is in the bucket, while the content object of the other checksum
\* holds other bytes.
C20_Witness ==
    \E r \in Requests :
        LET f == proc[r] IN
        /\ f.fn = "Get" /\ f.pc = "done"
        /\ ErrorClass(f.err) = "transport failure"
        /\ Len(f.calls) = 2
        /\ Decodable(bucket[MetaKey(f.checksum)])
        /\ \E d \in Checksums \ {f.checksum} :
             /\ bucket[PasteKey(d)] # Absent
             /\ ComputeChecksum(bucket[PasteKey(d)].body) # d


\* Request r is a view, raw or delete request whose path value is empty or
\* fails isValidChecksum.
MalformedLookup(r) ==
    /\ proc[r].handler \in {"view", "raw", "delete"}
    /\ proc[r].req # NoRequest
    /\ (proc[r].req.path = <<>> \/ ~isValidChecksum(proc[r].req.path))

\* The handler of request r has answered and has called no operation of
\* the storage.
AnsweredWithoutStorage(r) ==
    /\ proc[r].pc = "done"
    /\ proc[r].fn = "none"
    /\ proc[r].calls = <<>>

\* C21 as stated: for every path value that is empty or fails
\* isValidChecksum, the view, raw and delete handlers answer 404 Not Found
\* and call no operation of the storage.
C21_MalformedIsNotFound ==
    \A r \in Requests :
        MalformedLookup(r) => (AnsweredWithoutStorage(r) /\ proc[r].status = 404)

\* C21 as amended: for every path value that is empty or fails
\* isValidChecksum, the view, raw and delete handlers call no operation of
\* the storage; view and raw answer 404, and delete answers 404 when its
\* form parses and its CSRF tokens are valid, 400 or 403 otherwise.
C21_MalformedNeverReachesStorage ==
    \A r \in Requests :
        LET q == proc[r].req IN
        MalformedLookup(r)
        => /\ AnsweredWithoutStorage(r)
           /\ proc[r].status =
                IF q.handler = "delete" /\ ~q.parsed THEN 400
                ELSE IF q.handler = "delete" /\ ~Validate(q.cookie, q.form) THEN 403
                ELSE 404

\* A delete request with valid CSRF tokens and a path value of 64 characters
\* that ends in a space has been answered 404, while a paste is stored.
C21_Witness ==
    \E r \in Requests :
        /\ MalformedLookup(r)
        /\ proc[r].handler = "delete"
        /\ Len(proc[r].req.path) = checksumLength
        /\ proc[r].status = 404
        /\ \E c \in Checksums : bucket[PasteKey(c)] # Absent


\* isValidChecksum has returned to request r.
Validated(r) == proc[r].handler = "isValidChecksum" /\ proc[r].pc = "done"

\* C22: isValidChecksum(s) returns true exactly when s has 64 characters
\* and each of them is one of 0-9, a-f, A-F; it returns a boolean for every
\* input, and false for the empty string, for 63 and 65 characters and for
\* 64 characters of which one is no hexadecimal digit, a trailing space
\* included.
C22_ValidIffSha256Hex ==
    \A r \in Requests :
        LET str == proc[r].req.path
            valid == proc[r].ret.valid
        IN Validated(r)
           => /\ valid \in BOOLEAN
              /\ valid <=> /\ Len(str) = 64
                           /\ \A i \in 1..Len(str) :
                                str[i] \in {"0", "1", "2", "3", "4", "5", "6", "7",
                                            "8", "9", "a", "b", "c", "d", "e", "f",
                                            "A", "B", "C", "D", "E", "F"}
              /\ Len(str) \in {0, 63, 65} => ~valid
              /\ (str # <<>> /\ str[Len(str)] = " ") => ~valid
              /\ str \in {HelloChars, AbcChars, Upper(HelloChars)} => valid

\* isValidChecksum has returned false for the 64 characters of a checksum
\* with a space in the place of the last.
C22_Witness ==
    \E r \in Requests :
        /\ Validated(r)
        /\ proc[r].req.path = [HelloChars EXCEPT ![checksumLength] = " "]
        /\ ~proc[r].ret.valid


\* handleCreate has accepted the request of r and built its metadata.
CreateAccepted(r) == proc[r].handler = "create" /\ proc[r].fn = "Store"

\* The TTL the metadata of request r was built with.
BuiltTTL(r) == proc[r].meta.expires_at.wall - proc[r].meta.created_at.wall

\* C23: the TTL of a created paste is the requested duration when it parses
\* and is strictly positive, otherwise the configured default, and 24 hours
\* when the configured default is not positive; it is always strictly
\* positive.
C23_TTLFallback ==
    \A r \in Requests :
        LET requested == ParseDuration(proc[r].req.ttl) IN
        CreateAccepted(r)
        => /\ BuiltTTL(r) > 0
           /\ BuiltTTL(r) =
                IF requested.ok /\ requested.d > 0 THEN requested.d
                ELSE IF cfg.DefaultTTL > 0 THEN cfg.DefaultTTL
                ELSE 24
           /\ (proc[r].req.ttl \in {"", "-1h", "0s"} /\ cfg.DefaultTTL = 24)
              => BuiltTTL(r) = 24
           /\ proc[r].req.ttl = "48h" => BuiltTTL(r) = 48

\* A paste requested with a TTL of -1h under a default TTL that is not
\* positive is stored with metadata that expires 24 hours after its
\* creation.
C23_Witness ==
    \E r \in Requests :
        /\ CreateAccepted(r) /\ proc[r].pc = "done" /\ proc[r].err = NoErr
        /\ proc[r].req.ttl = "-1h"
        /\ cfg.DefaultTTL <= 0
        /\ Decodable(bucket[MetaKey(proc[r].checksum)])
        /\ LET m == DecodeMeta(bucket[MetaKey(proc[r].checksum)])
           IN m.expires_at.wall = m.created_at.wall + 24


\* C24: Exists(c) issues one HeadObject, on pastes/c, and nothing else; it
\* returns (true, nil) when that object is there, also when meta/c.json is
\* missing; (false, nil) when the backend answers not found; (false, an
\* error) when the call fails otherwise.
C24_ExistsProbesContentOnly ==
    [][\A r \in Requests :
         LET g == proc'[r]
             obj == bucket[PasteKey(g.checksum)]
             failed == faults' > faults
         IN (proc[r].pc = "head_paste" /\ g.pc = "done")
            => /\ Len(g.calls) = 1
               /\ g.calls[1].op = "HeadObject"
               /\ g.calls[1].key = PasteKey(g.checksum)
               /\ bucket' = bucket
               /\ failed => (~g.ret.exists /\ g.err # NoErr)
               /\ (~failed /\ obj # Absent) => (g.ret.exists /\ g.err = NoErr)
               /\ (~failed /\ obj = Absent) => (~g.ret.exists /\ g.err = NoErr)
      ]_vars

\* Exists has returned true for a checksum whose content object is in the
\* bucket and whose metadata object is not.
C24_Witness ==
    \E r \in Requests :
        /\ proc[r].fn = "Exists" /\ proc[r].pc = "done"
        /\ proc[r].ret.exists /\ proc[r].err = NoErr
        /\ bucket[PasteKey(proc[r].checksum)] # Absent
        /\ bucket[MetaKey(proc[r].checksum)] = Absent


\* What Get returned to request r is a complete paste of the checksum asked
\* for: content that hashes to it, and decoded metadata of that checksum.
CompletePaste(f) ==
    /\ f.ret # NilRet
    /\ f.ret.paste.checksum = f.checksum
    /\ ComputeChecksum(f.ret.paste.content) = f.checksum
    /\ f.ret.meta # NilMeta
    /\ f.ret.meta.checksum = f.checksum

\* C25: with a Delete of the same checksum running at the same time and no
\* failed backend call, a Get returns an error, with neither paste nor
\* metadata, or the complete paste; once the Get and the Delete have both
\* returned, neither object of the checksum is in the bucket.
C25_GetRacingDelete ==
    \A r \in Requests :
        LET f == proc[r] IN
        (GetReturned(f) /\ f.checksum \in Checksums)
        => /\ \/ GetErr(f) # NoErr /\ f.ret = NilRet
              \/ GetErr(f) = NoErr /\ CompletePaste(f)
           /\ (DeleteReturned(Cleaner) /\ proc[Cleaner].checksum = f.checksum)
              => Removed(f.checksum)

\* A Get fetched the content object and then found no metadata object,
\* while the Delete of the sweep pass removed the paste: the two ran
\* interleaved, and the Get returned an error.
C25_Witness ==
    \E r \in Requests :
        LET f == proc[r] IN
        /\ f.fn = "Get" /\ f.pc = "done"
        /\ Len(f.calls) = 2 /\ f.calls[1].ok
        /\ f.err = Err("failed to get metadata", "NoSuchKey")
        /\ DeleteReturned(Cleaner) /\ proc[Cleaner].checksum = f.checksum
        /\ Removed(f.checksum)


\* The stored paste of checksum c is in the next state what it is now, or
\* it is deleted: the content object keeps its bytes and the metadata object
\* keeps created_at and expires_at.
PasteKept(c) ==
    /\ bucket[PasteKey(c)] # Absent
       => bucket'[PasteKey(c)] \in {Absent, bucket[PasteKey(c)]}
    /\ Decodable(bucket[MetaKey(c)])
       => \/ bucket'[MetaKey(c)] = Absent
          \/ /\ Decodable(bucket'[MetaKey(c)])
             /\ TimeEqual(DecodeMeta(bucket'[MetaKey(c)]).created_at,
                          DecodeMeta(bucket[MetaKey(c)]).created_at)
             /\ TimeEqual(DecodeMeta(bucket'[MetaKey(c)]).expires_at,
                          DecodeMeta(bucket[MetaKey(c)]).expires_at)

\* C26: over create, view, raw, delete and sweep operations, a repeated
\* create of the same content included, the stored content and the stored
\* created_at and expires_at of a checksum do not change between its
\* creation and its deletion.
C26_ImmutableOnceCreated ==
    [][\A c \in Checksums : PasteKept(c)]_vars


\* Request r is a create request whose content is empty or longer than
\* cfg.MaxPasteSize.
BadContent(r) ==
    /\ proc[r].handler = "create"
    /\ (proc[r].req.content = "" \/ Len(proc[r].req.content) > cfg.MaxPasteSize)

\* C27 as stated: a create request whose content is empty or longer than
\* MaxPasteSize is answered 400 Bad Request and calls no operation of the
\* storage.
C27_BadContentIsBadRequest ==
    \A r \in Requests :
        BadContent(r) => (AnsweredWithoutStorage(r) /\ proc[r].status = 400)

\* C27 as amended: a create request whose content is empty or longer than
\* MaxPasteSize calls no operation of the storage; it is answered 400 when
\* its CSRF tokens are valid or its form does not parse, and 403 when the
\* form parses and the CSRF tokens are not valid.
C27_BadContentNeverStored ==
    \A r \in Requests :
        LET q == proc[r].req IN
        BadContent(r)
        => /\ AnsweredWithoutStorage(r)
           /\ proc[r].status =
                IF q.parsed /\ ~Validate(q.cookie, q.form) THEN 403 ELSE 400

\* A create request with valid CSRF tokens and a content longer than
\* MaxPasteSize has been answered 400, while a paste whose content has
\* exactly MaxPasteSize bytes is stored.
C27_Witness ==
    \E r \in Requests :
        /\ BadContent(r)
        /\ proc[r].req.content # ""
        /\ Validate(proc[r].req.cookie, proc[r].req.form)
        /\ proc[r].status = 400
        /\ \E c \in Checksums :
             /\ bucket[PasteKey(c)] # Absent
             /\ Len(bucket[PasteKey(c)].body) = cfg.MaxPasteSize


\* Request r is a create or delete request whose CSRF form token is empty,
\* whose CSRF cookie is empty, or whose two tokens differ.
BadTokens(r) ==
    /\ proc[r].handler \in {"create", "delete"}
    /\ \/ proc[r].req.form = ""
       \/ proc[r].req.cookie = ""
       \/ proc[r].req.form # proc[r].req.cookie

\* C28 as stated: a create or delete request whose CSRF form token is
\* empty, whose CSRF cookie is empty or whose two tokens differ is answered
\* 403 Forbidden and calls no operation of the storage.
C28_BadTokensAreForbidden ==
    \A r \in Requests :
        BadTokens(r) => (AnsweredWithoutStorage(r) /\ proc[r].status = 403)

\* C28 as amended: such a request calls no operation of the storage,
\* whatever its content or path value; it is answered 403 when its form
\* parses, also when the content or the path value is not valid, and 400
\* when ParseForm rejects its body.
C28_BadTokensNeverReachStorage ==
    \A r \in Requests :
        BadTokens(r)
        => /\ AnsweredWithoutStorage(r)
           /\ proc[r].status = IF proc[r].req.parsed THEN 403 ELSE 400

\* A delete request for a stored paste, with a form token that differs from
\* the cookie, has been answered 403 and the paste is in the bucket.
C28_Witness ==
    \E r \in Requests :
        LET q == proc[r].req IN
        /\ BadTokens(r)
        /\ proc[r].handler = "delete"
        /\ q.parsed /\ q.form # "" /\ q.cookie # ""
        /\ proc[r].status = 403
        /\ Text(q.path) \in Checksums
        /\ bucket[PasteKey(Text(q.path))] # Absent
        /\ bucket[MetaKey(Text(q.path))] # Absent


\* C29: the cleaner changes state only in these ways: from created to
\* sweeping when Start is called (the initial state of the sweeper is
\* Sweeping); from sweeping to idle when its ForEachMeta pass has returned,
\* with or without an error; from idle to sweeping by taking a tick; from
\* idle or sweeping to stopped when cleanupCtx is cancelled.  Stopped is
\* never left, and a pass that has returned leads to idle.
C29_TransitionModel ==
    [][cleaner'.state # cleaner.state
       => \/ cleaner.state = "created" /\ cleaner'.state = "sweeping"
          \/ /\ cleaner.state = "sweeping" /\ cleaner'.state = "idle"
             /\ cleaner.pc = "complete"
             /\ cleaner.ferr # Pending
          \/ /\ cleaner.state = "idle" /\ cleaner'.state = "sweeping"
             /\ tickPending /\ ~tickPending'
          \/ /\ cleaner.state \in {"idle", "sweeping"} /\ cleaner'.state = "stopped"
             /\ cancelled
      ]_vars
    /\ (PassComplete ~> cleaner.state = "idle")

\* A pass started by a tick has returned with the error of a failed listing
\* call and the cleaner is about to go idle.
C29_Witness ==
    /\ PassComplete
    /\ ~cleaner.first
    /\ cleaner.ferr # NoErr
    /\ ~cancelled

\* C30: once cleanupCtx is cancelled the cleaner begins no sweep pass, also
\* when a tick is pending as Start's select sees the cancellation, and when
\* the context is cancelled before Start is called.
C30_NoPassAfterCancel ==
    [][cancelled => ~(cleaner.state # "sweeping" /\ cleaner'.state = "sweeping")]_vars



\* The error ForEachMeta returns when a ListObjectsV2 call failed.
ListErr == Err("failed to list metadata", "transport")

\* A pass that has just begun: nothing listed, nothing counted.
FreshPass ==
    /\ cleaner.state = "sweeping" /\ cleaner.pc = "list"
    /\ cleaner.token = 0 /\ cleaner.listed = <<>> /\ cleaner.visits = <<>>
    /\ cleaner.deleted = 0 /\ cleaner.ferr = Pending

\* C31: a failed listing call ends the pass it belongs to and nothing else:
\* the step in which the call fails is the last backend call of the pass
\* and ForEachMeta returns the listing error; cleanup then returns and the
\* cleaner is idle, not stopped; while cleanupCtx is not cancelled a later
\* tick begins a fresh pass.  The only error ForEachMeta returns to cleanup
\* is that of a listing, never that of one entry's fetch or Delete, and the
\* cleaner stops for no reason but cancellation.
C31_ListFailureEndsPassOnly ==
    /\ [][(/\ cleaner.state = "sweeping" /\ cleaner.pc = "list"
           /\ cleaner' # cleaner
           /\ (cancelled \/ faults' # faults))
          => /\ cleaner'.state = "sweeping" /\ cleaner'.pc = "complete"
             /\ cleaner'.ferr = ListErr
             /\ bucket' = bucket]_vars
    /\ [][(PassComplete /\ cleaner' # cleaner)
          => cleaner'.state = "idle" /\ bucket' = bucket]_vars
    /\ [](PassComplete => cleaner.ferr \in {NoErr, ListErr})
    /\ [](cleaner.state = "stopped" => cancelled)
    /\ (PassComplete /\ cleaner.ferr = ListErr) ~> (FreshPass \/ cancelled)

\* The listing of the second page failed, with the context not cancelled,
\* after the pass had read the first page: ForEachMeta has returned the
\* listing error.
C31_Witness ==
    /\ PassComplete /\ cleaner.ferr = ListErr
    /\ ~cancelled
    /\ Len(cleaner.listed) >= 1
    /\ cleaner.more



\* Request r is a create request in its Store call, or back from it.
InStore(r) == proc[r].handler = "create" /\ proc[r].fn = "Store"

\* The context of the Store of frame f was done before its content write
\* was issued, or while that write was in flight.
CancelledByContentWrite(f) ==
    /\ f.ctx.done
    /\ \/ f.ctx.calls = 0
       \/ f.ctx.calls = 1 /\ ~f.calls[1].ok

\* C32: a Store whose context is done before or during its content write
\* issues no metadata write, leaves the metadata object as it was and
\* returns the error of the content write; and whenever the context of a
\* Store is done, every backend write the Store issues from then on fails
\* and the bucket is not changed any more.
C32_CancelledStoreWritesNoMeta ==
    /\ [](\A r \in Requests :
            (InStore(r) /\ proc[r].ctx.done)
            => /\ \A i \in (proc[r].ctx.calls + 1)..Len(proc[r].calls) :
                    ~proc[r].calls[i].ok
               /\ CancelledByContentWrite(proc[r])
                  => /\ \A i \in 1..Len(proc[r].calls) :
                          proc[r].calls[i].key # MetaKey(proc[r].checksum)
                     /\ proc[r].pc = "done"
                        => /\ proc[r].err.msg = "failed to store paste"
                           /\ proc[r].status = 500)
    /\ [][\A r \in Requests :
            (InStore(r) /\ proc[r].ctx.done) => bucket' = bucket]_vars
    /\ [][\A r \in Requests :
            (InStore(r) /\ proc'[r].fn = "Store"
             /\ CancelledByContentWrite(proc'[r]))
            => bucket'[MetaKey(proc[r].checksum)] = bucket[MetaKey(proc[r].checksum)]]_vars

\* A Store was cancelled while its content write was in flight; the backend
\* had applied the write, the call returned the context's error, and Store
\* has returned with no metadata object written.
C32_Witness ==
    \E r \in Requests :
       /\ InStore(r) /\ proc[r].pc = "done"
       /\ CancelledByContentWrite(proc[r]) /\ proc[r].ctx.calls = 1
       /\ bucket[PasteKey(proc[r].checksum)] = TextObject(proc[r].content)
       /\ bucket[MetaKey(proc[r].checksum)] = Absent



\* The entries the pass has read for which Delete was called and returned nil.
DeletedVisits ==
    {i \in 1..Len(cleaner.visits) :
        cleaner.visits[i].expired /\ cleaner.visits[i].del = NoErr.msg}

\* The checksums whose metadata object was in the bucket when the pass began
\* and is gone.
GoneSinceStart ==
    {c \in Checksums : cleaner.start[MetaKey(c)] # Absent /\ bucket[MetaKey(c)] = Absent}

\* C33: the count cleanup reports when its pass ends is the number of
\* entries the pass read, found expired, and for which Delete returned nil:
\* an entry that was not expired has no Delete call and is not counted, an
\* entry whose Delete returned an error is not counted, and the count is
\* the number of pastes the pass has removed from the bucket.
C33_CountsSuccessfulDeletes ==
    (cleaner.state = "sweeping" /\ cleaner.cb = "cleanup")
    => /\ cleaner.deleted = Cardinality(DeletedVisits)
       /\ cleaner.deleted = Cardinality(GoneSinceStart)
       /\ \A i \in 1..Len(cleaner.visits) :
            /\ ~cleaner.visits[i].expired => cleaner.visits[i].del = "none"
            /\ i \in DeletedVisits
               => /\ bucket[PasteKey(cleaner.visits[i].checksum)] = Absent
                  /\ bucket[MetaKey(cleaner.visits[i].checksum)] = Absent

\* A pass has ended in which the Delete of one expired paste failed and the
\* Delete of another succeeded: the count is one.
C33_Witness ==
    /\ PassComplete /\ cleaner.ferr = NoErr
    /\ Len(cleaner.visits) = 2
    /\ cleaner.visits[1].expired /\ cleaner.visits[1].del \notin {"none", NoErr.msg}
    /\ cleaner.visits[2].expired /\ cleaner.visits[2].del = NoErr.msg
    /\ cleaner.deleted = 1



\* The backend calls of kind op that frame f has issued.
CallsOf(f, op) == {i \in 1..Len(f.calls) : f.calls[i].op = op}

C35_WrittenPasteIsConsistent ==
    /\ [][\A r \in Requests :
            (InStore(r) /\ bucket' # bucket)
            => LET q == proc[r].req
                   c == ComputeChecksum(q.content)
                   m == DecodeMeta(bucket'[MetaKey(c)])
               IN IF proc[r].pc = "put_paste"
                  THEN bucket' = [bucket EXCEPT ![PasteKey(c)] = TextObject(q.content)]
                  ELSE /\ \A k \in Keys \ {MetaKey(c)} : bucket'[k] = bucket[k]
                       /\ Decodable(bucket'[MetaKey(c)])
                       /\ m.checksum = c
                       /\ m.size = Len(q.content)
                       /\ m.created_at.wall <= now
                       /\ m.expires_at.wall
                            = m.created_at.wall + EffectiveTTL(q.ttl, cfg.DefaultTTL)]_vars
    /\ [](\A c \in Checksums :
            /\ bucket[PasteKey(c)] # Absent
               => /\ bucket[PasteKey(c)].kind = "text/plain"
                  /\ ComputeChecksum(bucket[PasteKey(c)].body) = c
            /\ bucket[MetaKey(c)] # Absent
               => /\ Decodable(bucket[MetaKey(c)])
                  /\ DecodeMeta(bucket[MetaKey(c)]).checksum = c
                  /\ DecodeMeta(bucket[MetaKey(c)]).size = Len(ContentOf(c))
                  /\ DecodeMeta(bucket[MetaKey(c)]).expires_at.wall
                       > DecodeMeta(bucket[MetaKey(c)]).created_at.wall)

\* A create of "Hello, World!" with a TTL of 2h, accepted some time into
\* the run, is stored: 13 bytes, expiring two hours after its creation.
C35_Witness ==
    \E r \in Requests :
       /\ InStore(r) /\ proc[r].pc = "done" /\ proc[r].err = NoErr
       /\ proc[r].req.content = "Hello, World!" /\ proc[r].req.ttl = "2h"
       /\ LET c == ComputeChecksum("Hello, World!")
              m == DecodeMeta(bucket[MetaKey(c)])
          IN /\ bucket[PasteKey(c)] = TextObject("Hello, World!")
             /\ m.checksum = c /\ m.size = 13
             /\ m.created_at.wall >= 1
             /\ m.expires_at.wall = m.created_at.wall + 2



\* C36: whenever an object of checksum c is deleted while create requests
\* run beside the sweep pass, the metadata object stored for c at that
\* moment decodes and is expired.
C36_DeletesOnlyExpired ==
    [][\A c \in Checksums :
         (\E k \in {PasteKey(c), MetaKey(c)} : bucket[k] # Absent /\ bucket'[k] = Absent)
         => /\ Decodable(bucket[MetaKey(c)])
            /\ IsExpired(DecodeMeta(bucket[MetaKey(c)]), now)]_vars



\* The entries of the pass for which Delete was called and returned an error.
FailedDeletes ==
    {i \in 1..Len(cleaner.visits) :
        cleaner.visits[i].expired /\ cleaner.visits[i].del \notin {"none", NoErr.msg}}

\* The pass has ended and its Delete of checksum c had returned an error.
DeleteFailedInPass(c) ==
    /\ PassComplete
    /\ \E i \in FailedDeletes : cleaner.visits[i].checksum = c

\* C37: a Delete that returns an error to the sweep pass has not removed the
\* metadata object: the error of the content delete is returned with no
\* metadata delete issued, the error of the metadata delete with the object
\* still there.  The paste is therefore listed again, and unless cleanupCtx
\* is cancelled a later pass calls Delete for it once more.
C37_FailedDeleteKeepsMeta ==
    /\ [](\A i \in FailedDeletes :
            LET c == cleaner.visits[i].checksum IN
            /\ bucket[MetaKey(c)] # Absent
            /\ bucket[MetaKey(c)] = cleaner.start[MetaKey(c)]
            /\ IsExpired(DecodeMeta(bucket[MetaKey(c)]), now))
    /\ [][(cleaner.pc = "delete" /\ proc'[Cleaner].err.msg = "failed to delete paste")
          => /\ Len(proc'[Cleaner].calls) = 1
             /\ proc'[Cleaner].calls[1].key = PasteKey(proc[Cleaner].checksum)
             /\ bucket' = bucket]_vars
    /\ \A c \in Checksums :
         DeleteFailedInPass(c)
         ~> (cancelled \/ (/\ cleaner.state = "sweeping" /\ cleaner.pc = "delete"
                           /\ proc[Cleaner].checksum = c))

\* A pass has ended whose Delete of a paste removed the content object and
\* failed at the metadata delete: the metadata object is still in the bucket
\* and the cleaner is not cancelled.
C37_Witness ==
    /\ ~cancelled
    /\ \E c \in Checksums :
         /\ DeleteFailedInPass(c)
         /\ \E i \in FailedDeletes : /\ cleaner.visits[i].checksum = c
                                     /\ cleaner.visits[i].del = "failed to delete metadata"
         /\ cleaner.start[PasteKey(c)] # Absent
         /\ bucket[PasteKey(c)] = Absent
         /\ bucket[MetaKey(c)] # Absent



\* The content object of checksum c is in the bucket and its metadata object
\* is missing or does not decode.
Orphan(c) ==
    /\ bucket[PasteKey(c)] # Absent
    /\ ~Decodable(bucket[MetaKey(c)])

\* C38: the sweep pass calls Delete only with the checksum of a metadata
\* object it has fetched and decoded; no step of a sweep pass or of a view,
\* raw or delete request removes or changes a content object whose metadata
\* object is missing or does not decode; and such a request for its
\* checksum gets an error from Get and is answered with 404.
C38_OrphanContentStays ==
    /\ [](cleaner.pc = "delete"
          => LET c == proc[Cleaner].checksum IN
             /\ Decodable(bucket[MetaKey(c)])
             /\ DecodeMeta(bucket[MetaKey(c)]) = proc[Cleaner].meta
             /\ proc[Cleaner].meta.checksum = c)
    /\ [][\A c \in Checksums :
            Orphan(c) => /\ bucket'[PasteKey(c)] = bucket[PasteKey(c)]
                         /\ bucket'[MetaKey(c)] = bucket[MetaKey(c)]]_vars
    /\ [](\A r \in Requests :
            (/\ proc[r].handler \in {"view", "raw", "delete"}
             /\ proc[r].pc = "done"
             /\ proc[r].checksum \in Checksums
             /\ Orphan(proc[r].checksum))
            => /\ proc[r].fn = "Get"
               /\ proc[r].err # NoErr
               /\ proc[r].ret = NilRet
               /\ proc[r].status = 404)

\* A delete request for a content object whose metadata object does not
\* decode has been answered 404 after both fetches were served, and a sweep
\* pass has run over the bucket before: the content object is in place.
C38_Witness ==
    \E r \in Requests :
       /\ proc[r].handler = "delete" /\ proc[r].pc = "done"
       /\ proc[r].status = 404
       /\ proc[r].err = Err("failed to decode metadata", "syntax")
       /\ Orphan(proc[r].checksum)
       /\ bucket[MetaKey(proc[r].checksum)] = Undecodable
       /\ cleaner.state = "idle"



\* C39: the cleaner runs one pass at a time.  A pass begins only when Start
\* is called or when the idle cleaner takes a tick, so never while a pass
\* is running; a tick that fires during a pass stays in ticker.C and the
\* pass goes on from where it was; the tick is taken only after the pass
\* has returned.
C39_OnePassAtATime ==
    /\ [][(FreshPass' /\ cleaner' # cleaner)
          => cleaner.state \in {"created", "idle"}]_vars
    /\ [][(tickPending /\ ~tickPending')
          => cleaner.state = "idle" /\ FreshPass']_vars
    /\ [][(cleaner.state = "sweeping" /\ cleaner'.state = "sweeping")
          => /\ cleaner'.t0 = cleaner.t0
             /\ cleaner'.start = cleaner.start
             /\ Len(cleaner'.listed) >= Len(cleaner.listed)
             /\ Len(cleaner'.visits) >= Len(cleaner.visits)
             /\ cleaner'.deleted >= cleaner.deleted
             /\ tickPending => tickPending']_vars

\* A tick has fired during a pass started by an earlier tick; the pass is at
\* the Delete of an entry it has read, with the tick still pending.
C39_Witness ==
    /\ cleaner.state = "sweeping" /\ cleaner.pc = "delete"
    /\ ~cleaner.first
    /\ tickPending
    /\ Len(cleaner.visits) >= 1

=============================================================================
